---- MODULE Spec2Model ----
(***************************************************************************)
(* Subscription ledger of the lookup bot (src/bot.py).                     *)
(*                                                                         *)
(* The ledger is the SubscriptionManager object (users map, _lock,         *)
(* _last_loaded), the store file subscriptions.json with its .backup, and  *)
(* the module-level functions get_user_subscription, can_user_search and   *)
(* use_search_credit.  The main thread constructs the manager; telebot and *)
(* Flask worker threads then run the message handlers.  Every handler is   *)
(* cut into steps at the points where another thread can interleave: a     *)
(* blocking lock acquisition, a file operation, a call boundary.           *)
(***************************************************************************)
EXTENDS Integers, Sequences, FiniteSets, TLC

(***************************************************************************)
(* Bounds                                                                  *)
(***************************************************************************)
\* last tick of the clock
MaxTime == 3
\* handler runs each worker thread may start
MaxReq == 3
\* runs of the add_subscription.py tool
MaxExt == 1
\* file operations that may fail
MaxFail == 1
\* records in a JSON array the lookup service returns
MaxItems == 2
\* searches each user may add to the history
MaxAdds == 12
\* polling runs in a row that may end in an error
MaxRuns == 11
\* digits in the first run of a text, and in its second
MaxRun == 16
MaxTail == 2

(***************************************************************************)
(* Program constants                                                       *)
(***************************************************************************)
\* config.ADMIN_USER_ID (a small stand-in for 7490634345)
ADMIN_USER_ID == 1
\* config.ADMIN_USERNAME
ADMIN_USERNAME == "CRAZYPANEL1"
\* the user ids of the model: the admin and an ordinary chat user
UserIds == {ADMIN_USER_ID, ADMIN_USER_ID + 1}

\* ticks per calendar day: datetime.now().date() is now \div DayLen.  The
\* clock runs through the first day and one tick past the end of a one-day
\* plan bought at its start.
DayLen == MaxTime - 1
\* timedelta(days=36500) in add_subscription_user and add_subscription.py
LifetimeDays == 36500
\* timedelta(days=30) of the premium and pro plans of add_subscription.py
ToolPlanDays == 30

\* config.MAX_RETRIES
MAX_RETRIES == 3
\* config.RETRY_DELAY, in seconds
RETRY_DELAY == 2
\* str(last_exc)[:100] in the final error message of query_api
DescrCut == 100
\* len(text_response) > 10 in query_api
MinTextLen == 10

\* len(search_history[user_id]) > 10 in add_to_history
HISTORY_LIMIT == 10
\* BotManager: retry_delay and max_retry_delay in seconds,
\* max_consecutive_errors
MIN_RETRY_DELAY == 5
max_retry_delay == 60
max_consecutive_errors == 10
\* NUMBER_RE: \d{10,15}
MinDigits == 10
MaxDigits == 15

\* Python None for a datetime, and for a user id
None == -1
\* Python None / empty string for a name (both are falsy)
NoName == ""

\* subscription_plans
subscription_plans ==
  [p \in {"free", "single", "lifetime"} |->
     CASE p = "free"     -> [searches_per_day |-> 0,   price |-> 0,    duration_days |-> 0]
       [] p = "single"   -> [searches_per_day |-> 1,   price |-> 100,  duration_days |-> 1]
       [] p = "lifetime" -> [searches_per_day |-> 999, price |-> 8000, duration_days |-> 36500]]

\* plans the add_subscription.py command line accepts
ToolPlans == {"single", "premium", "pro", "lifetime"}

\* (username, first_name) pairs a chat sender may carry
Profiles == { <<NoName, NoName>>, <<"crazypanel1", "Bob">> }

\* str.upper() on the names of the model
Upper(s) ==
  CASE s = "bob"         -> "BOB"
    [] s = "crazypanel1" -> "CRAZYPANEL1"
    [] s = "tool"        -> "TOOL"
    [] OTHER             -> s

\* x or y on names
NameOr(x, y) == IF x # NoName THEN x ELSE y

(***************************************************************************)
(* Threads                                                                 *)
(***************************************************************************)
Main == "main"
Workers == {"w1", "w2"}
Threads == {Main} \cup Workers
NoThread == "none"

(***************************************************************************)
(* State                                                                   *)
(***************************************************************************)
VARIABLES
  now,        \* the wall clock, datetime.now()
  users,      \* SubscriptionManager.users: user id -> record
  lock,       \* owner of SubscriptionManager._lock, a non-reentrant Lock
  lastLoaded, \* SubscriptionManager._last_loaded
  file,       \* subscriptions.json
  backup,     \* subscriptions.json.backup
  pc,         \* position of each thread
  stack,      \* return positions of each thread
  req,        \* the message a worker is handling
  arg,        \* arguments of the ledger call a thread is in
  sub,        \* the local variable subscription of a thread
  res,        \* (can_search, limit_message) of a thread
  data,       \* the local variable data of save_subscriptions
  budget,     \* handler runs a worker may still start
  ext,        \* runs of add_subscription.py so far
  fails,      \* failed file operations so far
  permQuota,  \* history: searches_per_day on which can_user_search allowed
  calls,      \* history: use_search_credit calls made for each user
  didReset,   \* history: the thread's last get_user_subscription zeroed a
              \* non-zero searches_used
  usedBefore, \* history: searches_used of the sender's record when the
              \* message arrived and when can_user_search decided
  api,        \* the frame of a query_api call: its locals, the requests it
              \* sent, the sleeps it made and what it returned
  search_history, \* search_history: user id -> list of search entries
  bot_stats,  \* bot_stats["total_searches"]
  histLog,    \* history: for each user, the entries added since the user's
              \* history was last cleared, and how many were added in all
  manager,    \* the BotManager object and the position of start_polling
  norm        \* a normalize_number call: its argument and its result

ledgerVars == <<users, lock, lastLoaded>>
storeVars  == <<file, backup>>
localVars  == <<pc, stack, req, arg, sub, res, data>>
envVars    == <<now, budget, ext, fails>>
vars == <<now, users, lock, lastLoaded, file, backup, pc, stack, req, arg,
          sub, res, data, budget, ext, fails, permQuota, calls, didReset,
          usedBefore, api, search_history, bot_stats, histLog, manager, norm>>
histVars == <<permQuota, calls, didReset, usedBefore>>
\* the ledger and the threads that work on it
ledgerAll == <<ledgerVars, storeVars, localVars, envVars, histVars>>
\* the search history
historyVars == <<search_history, bot_stats, histLog>>
\* what the ledger operations do not touch
auxVars == <<api, historyVars, manager, norm>>

(***************************************************************************)
(* Dates and their serialisation                                           *)
(***************************************************************************)
\* datetime.now().date()
Today == now \div DayLen
\* datetime/date .isoformat(): a string, modelled as a one-element tuple
IsoFormat(t) == <<t>>
\* datetime.fromisoformat()
FromIsoFormat(s) == s[1]
\* JSON null
JsonNull == <<>>

EmptyUsers == [u \in {} |-> 0]

\* dict assignment d[k] = v
Put(d, k, v) == [x \in (DOMAIN d) \cup {k} |-> IF x = k THEN v ELSE d[x]]

\* a save that writes null for every expiry
SerializeUser_DropExpiry(r) ==
  [r EXCEPT !.expires      = JsonNull,
            !.last_reset   = IsoFormat(r.last_reset),
            !.created_date = IsoFormat(r.created_date)]

\* the per-user part of save_subscriptions: sub_data.copy() with the
\* datetime fields converted by isoformat() when they are set
SerializeUser(r) ==
  [r EXCEPT !.expires      = IF r.expires # None THEN IsoFormat(r.expires) ELSE JsonNull,
            !.last_reset   = IsoFormat(r.last_reset),
            !.created_date = IsoFormat(r.created_date)]

\* a save that writes every searches_used as 0
Serialize_ZeroUsed(us) ==
  [u \in DOMAIN us |-> [SerializeUser(us[u]) EXCEPT !.searches_used = 0]]

\* the users_data dict of save_subscriptions
Serialize(us) == [u \in DOMAIN us |-> SerializeUser(us[u])]

\* the per-user part of load_subscriptions
DeserializeUser(s) ==
  [s EXCEPT !.expires      = IF s.expires # JsonNull THEN FromIsoFormat(s.expires) ELSE None,
            !.last_reset   = FromIsoFormat(s.last_reset),
            !.created_date = FromIsoFormat(s.created_date)]

\* A file: whether it exists, whether json.load can parse it, the users
\* section of its document, and its modification time.
NoFile == [exists |-> FALSE, valid |-> TRUE, users |-> EmptyUsers, mtime |-> None]

\* The modification time of the store and _last_loaded are readings of a
\* clock with sub-second resolution, which the code only compares with each
\* other (reload_if_needed).  They are kept as ranks: the later of the two
\* is Late, the earlier Early.
Early == 0
Late == 1
Older(stamp) == IF stamp = None THEN None ELSE Early

\* the store after its content is written at this moment
Written(content) == [exists |-> TRUE, valid |-> TRUE, users |-> content, mtime |-> Late]
\* the store after open(..., 'w') truncated it and json.dump or the close
\* failed: a file that is not a JSON document
Truncated == [exists |-> TRUE, valid |-> FALSE, users |-> EmptyUsers, mtime |-> Late]
\* the store as seen once _last_loaded is set to this moment
Aged(f) == IF f.exists THEN [f EXCEPT !.mtime = Early] ELSE f

\* a backup that keeps nothing of the store
BackupOf_Empty(f) == [NoFile EXCEPT !.exists = TRUE]

\* os.rename(subscription_file, backup_file): the .backup file
BackupOf(f) == [f EXCEPT !.mtime = None]

\* a load that keeps the ledger it had when the store cannot be read
LoadedUsers_KeepOnError(f) ==
  IF f.exists /\ f.valid THEN [u \in DOMAIN f.users |-> DeserializeUser(f.users[u])]
  ELSE users

\* load_subscriptions: the users map it leaves; a missing file and a
\* JSONDecodeError both leave {}
LoadedUsers(f) ==
  IF f.exists /\ f.valid THEN [u \in DOMAIN f.users |-> DeserializeUser(f.users[u])]
  ELSE EmptyUsers

\* reload_if_needed: does it call load_subscriptions
ReloadNeeded ==
  /\ file.exists
  /\ (lastLoaded = None \/ file.mtime > lastLoaded)

(***************************************************************************)
(* Records                                                                 *)
(***************************************************************************)
\* is_admin of add_subscription_user
IsAdminIdentity(user_id, username) ==
  \/ user_id = ADMIN_USER_ID
  \/ (username # NoName /\ Upper(username) = Upper(ADMIN_USERNAME))

\* is_admin_by_user_id
is_admin_by_user_id(user_id, username) ==
  \/ user_id = ADMIN_USER_ID
  \/ (username # NoName /\ Upper(username) = Upper(ADMIN_USERNAME))
  \/ (user_id \in DOMAIN users /\ users[user_id].is_admin)

\* user_data of add_subscription_user
NewUserData(user_id, username, first_name, plan, payment_amount) ==
  [ username       |-> NameOr(username, "N/A"),
    first_name     |-> NameOr(first_name, "N/A"),
    plan           |-> plan,
    payment_amount |-> payment_amount,
    created_date   |-> now,
    expires        |-> CASE plan = "single"   -> now + 1 * DayLen
                         [] plan = "lifetime" -> now + LifetimeDays * DayLen
                         [] OTHER             -> None,
    searches_used  |-> 0,
    last_reset     |-> Today,
    total_searches |-> 0,
    status         |-> "active",
    is_admin       |-> IsAdminIdentity(user_id, username) ]

\* user_data of add_subscription.py, as written to the file.  The tool
\* writes no is_admin key; every reader uses .get('is_admin', False).
ToolUserData(username, first_name, plan, payment_amount) ==
  [ username       |-> username,
    first_name     |-> first_name,
    plan           |-> plan,
    payment_amount |-> payment_amount,
    created_date   |-> IsoFormat(now),
    expires        |-> CASE plan = "single"            -> IsoFormat(now + 1 * DayLen)
                         [] plan \in {"premium", "pro"} -> IsoFormat(now + ToolPlanDays * DayLen)
                         [] plan = "lifetime"          -> IsoFormat(now + LifetimeDays * DayLen)
                         [] OTHER                      -> JsonNull,
    searches_used  |-> 0,
    last_reset     |-> IsoFormat(Today),
    total_searches |-> 0,
    status         |-> "active",
    is_admin       |-> FALSE ]

\* the lazy transitions and display updates of get_user_subscription on an
\* existing record
Expired(r) == r.expires # None /\ now > r.expires
ResetDue(r) == r.last_reset # Today

\* a display update that also clears the payment
UpdateNames_ClearPayment(r, username, first_name) ==
  [r EXCEPT !.payment_amount = 0]

\* if username and subscription.get('username') != username (and the
\* same for first_name) in get_user_subscription
UpdateNames(r, username, first_name) ==
  [r EXCEPT !.username   = IF username # NoName /\ r.username # username
                           THEN username ELSE @,
            !.first_name = IF first_name # NoName /\ r.first_name # first_name
                           THEN first_name ELSE @]

\* an expiry that only marks the status
ExpireIfDue_StatusOnly(r) ==
  IF Expired(r)
  THEN [r EXCEPT !.status = "expired"]
  ELSE r

\* the expiry downgrade of get_user_subscription
ExpireIfDue(r) ==
  IF Expired(r)
  THEN [r EXCEPT !.plan = "free", !.expires = None, !.status = "expired"]
  ELSE r

\* a daily reset that only moves the date
DailyReset_KeepCount(r) ==
  IF ResetDue(r)
  THEN [r EXCEPT !.last_reset = Today]
  ELSE r

\* the daily reset of get_user_subscription
DailyReset(r) ==
  IF ResetDue(r)
  THEN [r EXCEPT !.searches_used = 0, !.last_reset = Today]
  ELSE r

\* a get_user_subscription that counts every access
Touched_CountsAccess(r, username, first_name) ==
  [DailyReset(ExpireIfDue(UpdateNames(r, username, first_name)))
     EXCEPT !.total_searches = @ + 1]

\* the changes get_user_subscription makes to a known record
Touched(r, username, first_name) ==
  DailyReset(ExpireIfDue(UpdateNames(r, username, first_name)))

\* can_user_search with > in place of >=
CanSearch_OffByOne(r) ==
  IF r.is_admin THEN [allowed |-> TRUE, reason |-> ""]
  ELSE IF r.searches_used > subscription_plans[r.plan].searches_per_day
       THEN [allowed |-> FALSE, reason |-> "limit"]
       ELSE [allowed |-> TRUE, reason |-> ""]

\* the decision of can_user_search on a record whose plan is in the table
CanSearch(r) ==
  IF r.is_admin THEN [allowed |-> TRUE, reason |-> ""]
  ELSE IF r.searches_used >= subscription_plans[r.plan].searches_per_day
       THEN [allowed |-> FALSE, reason |-> "limit"]
       ELSE [allowed |-> TRUE, reason |-> ""]

\* a charge that does not spare the admin
Charged_AdminToo(r) == r.searches_used + 1

\* searches_used after use_search_credit: the admin is not charged
Charged(r) == IF r.is_admin THEN r.searches_used ELSE r.searches_used + 1

\* use_search_credit that forgets searches_used
Consume_NoCount(r) ==
  [r EXCEPT !.total_searches = @ + 1]

\* the counters of use_search_credit
Consume(r) ==
  [r EXCEPT !.searches_used  = Charged(r),
            !.total_searches = @ + 1]

(***************************************************************************)
(* Thread locals                                                           *)
(***************************************************************************)
NoRec == [plan |-> "none"]
NoRef == [uid |-> None, live |-> FALSE, rec |-> NoRec]
LiveRef(u) == [uid |-> u, live |-> TRUE, rec |-> NoRec]
\* a message: what it asks for, the user id it is about, the sender's id
\* and names, and whether its text normalizes to a number
NoReq == [op |-> "none", uid |-> None, sender |-> None, username |-> NoName,
          first_name |-> NoName, valid |-> FALSE, found |-> "none"]
\* searches_used as a handler saw it: at arrival and at the decision
NoUse == [start |-> 0, decided |-> 0]
\* what query_api reports: {"success": True, ...} or {"success": False, ...}
QueryOutcomes == {"success", "failure"}
NoArg == [uid |-> None, username |-> NoName, first_name |-> NoName,
          plan |-> "none", amount |-> 0]
GetArg(u, username, first_name) ==
  [uid |-> u, username |-> username, first_name |-> first_name,
   plan |-> "none", amount |-> 0]
NoRes == [allowed |-> FALSE, reason |-> "unset"]
NoData == EmptyUsers

\* the record a thread's local variable subscription refers to: the dict in
\* the users map, or a dict the map no longer holds
SubRec(t) == IF sub[t].live THEN users[sub[t].uid] ELSE sub[t].rec

\* replacing the dict of user u in the map (or all dicts, on a load) leaves
\* the threads that hold the old dict with an object outside the map
Detach(s, replaced) ==
  [t \in Threads |->
     IF s[t].live /\ s[t].uid \in replaced
     THEN [uid |-> s[t].uid, live |-> FALSE, rec |-> users[s[t].uid]]
     ELSE s[t]]

(***************************************************************************)
(* query_api: the lookup client.  One call sends up to MAX_RETRIES         *)
(* requests; what each request meets (a status and a body, or an           *)
(* exception) is the remote side's choice.                                 *)
(***************************************************************************)
\* the records of a JSON array: a dict with string fields, or anything
\* format_user_data cannot read (a non-dict, a dict whose address is null)
Items == {"record", "malformed"}
\* JSON arrays of up to MaxItems records
ItemLists == UNION { [1..n -> Items] : n \in 0..MaxItems }

\* lengths of a non-JSON body after strip(), around the len > 10 test
TextLens == {0, MinTextLen, MinTextLen + 1}

\* the body of a 200 response: a JSON array; a JSON object with a status
\* and a data member (items is the data as a list: a list as it is, a
\* truthy non-list wrapped in a list, a missing or falsy one empty);
\* another JSON value; or text that is not JSON
NoBody == [fmt |-> "none", status |-> "", items |-> << >>, len |-> 0]
Bodies ==
  { [fmt |-> "list", status |-> "", items |-> l, len |-> 0] : l \in ItemLists }
  \cup { [fmt |-> "dict", status |-> s, items |-> l, len |-> 0] :
           s \in {"success", "error"}, l \in ItemLists }
  \cup { [fmt |-> "scalar", status |-> "", items |-> << >>, len |-> 0] }
  \cup { [fmt |-> "text", status |-> "", items |-> << >>, len |-> n] : n \in TextLens }

\* exceptions: the class and the length of str(e).  last_exc = None has
\* type(None).__name__ = "NoneType" and str(None) = "None"
NoExc == [cls |-> "NoneType", len |-> 4]
ExcClasses == {"ReadTimeout", "ConnectionError", "RequestException", "Exception"}
DescrLens == {DescrCut - 1, DescrCut + 1}
Excs == [cls : ExcClasses, len : DescrLens]
\* the AttributeError of format_user_data on a record it cannot read
AttributeError == [cls |-> "AttributeError", len |-> DescrCut - 1]

\* except (ReadTimeout, ConnectionError)
IsNetworkError(e) == e.cls \in {"ReadTimeout", "ConnectionError"}
\* except RequestException: both classes above derive from it
IsRequestException(e) == e.cls \in {"ReadTimeout", "ConnectionError", "RequestException"}

\* what one requests.get call meets
StatusCodes == {200, 401, 404, 429, 500}
Responses ==
  { [code |-> 200, body |-> b, exc |-> NoExc] : b \in Bodies }
  \cup { [code |-> c, body |-> NoBody, exc |-> NoExc] : c \in StatusCodes \ {200} }
  \cup { [code |-> 0, body |-> NoBody, exc |-> e] : e \in Excs }

\* the text query_api returns: which message, its number (records
\* formatted, body length, HTTP status, length of the description kept)
\* and the exception class it names
Text(msg, n, exc) == [msg |-> msg, n |-> n, exc |-> exc]
NoDataText == Text("no_data", 0, "")
InvalidKeyText == Text("invalid_key", 0, "")
Raised == Text("raise", 0, "AttributeError")

\* format_user_data on a non-empty list: record.get and
\* .get('address', 'N/A').replace raise AttributeError on a record that is
\* not a dict of strings
format_user_data(items) ==
  IF \E i \in 1..Len(items) : items[i] = "malformed"
  THEN Raised
  ELSE Text("formatted", Len(items), "")

\* the 200 branch: the text returned, or Raised
Body200(body) ==
  CASE body.fmt = "list" /\ Len(body.items) > 0 -> format_user_data(body.items)
    [] body.fmt = "dict" /\ body.status = "success" /\ Len(body.items) > 0 ->
         format_user_data(body.items)
    [] body.fmt = "text" /\ body.len > MinTextLen -> Text("body", body.len, "")
    [] OTHER -> NoDataText

NoRet == [success |-> FALSE, text |-> Text("none", 0, "")]
NoApi == [pc |-> "idle", attempt |-> 0, requests |-> 0, sleeps |-> << >>,
          last_exc |-> NoExc, ret |-> NoRet, trace |-> << >>]

\* return success, text
Return(a, success, text) ==
  [a EXCEPT !.pc = "done", !.ret = [success |-> success, text |-> text]]
\* time.sleep(d)
Sleep(a, d) == [a EXCEPT !.sleeps = Append(@, d)]

\* a description that is not cut
FailureText_Uncut(e) == Text("failed", e.len, e.cls)

\* the final error_msg: type(last_exc).__name__ and str(last_exc)[:100]
FailureText(e) == Text("failed", IF e.len < DescrCut THEN e.len ELSE DescrCut, e.cls)

\* a loop that runs one attempt more
MoreAttempts_OneExtra(attempt) == attempt <= MAX_RETRIES

\* for attempt in range(1, config.MAX_RETRIES + 1): is there a next one
MoreAttempts(attempt) == attempt < MAX_RETRIES

\* the end of an iteration that did not return: the next attempt, or the
\* code after the loop
Continue(a) ==
  IF MoreAttempts(a.attempt) THEN [a EXCEPT !.attempt = @ + 1]
  ELSE Return(a, FALSE, FailureText(a.last_exc))
\* break
Break(a) == Return(a, FALSE, FailureText(a.last_exc))

\* a 401 that is handled like any other error status
On401_Retry(a) ==
  IF a.attempt = MAX_RETRIES THEN Return(a, FALSE, Text("http_status", 401, ""))
  ELSE Continue(a)

\* elif resp.status_code == 401
On401(a) == Return(a, FALSE, InvalidKeyText)

\* a linear delay on 429
RateLimitDelay_Linear(attempt) == RETRY_DELAY * attempt

\* wait_time = config.RETRY_DELAY * (2 ** attempt)
RateLimitDelay(attempt) == RETRY_DELAY * 2^attempt

\* elif resp.status_code == 429: sleep, continue
On429(a) == Continue(Sleep(a, RateLimitDelay(a.attempt)))

\* a status that gives up on the first attempt
OnOtherStatus_GiveUp(a, code) == Return(a, FALSE, Text("http_status", code, ""))

\* else: any other status
OnOtherStatus(a, code) ==
  IF a.attempt = MAX_RETRIES THEN Return(a, FALSE, Text("http_status", code, ""))
  ELSE Continue(a)

\* a network error that sleeps after the last attempt too
OnNetworkError_AlwaysSleep(a) == Continue(Sleep(a, RETRY_DELAY * a.attempt))

\* except (ReadTimeout, ConnectionError), after last_exc = e
OnNetworkError(a) ==
  IF a.attempt < MAX_RETRIES THEN Continue(Sleep(a, RETRY_DELAY * a.attempt))
  ELSE Continue(a)

\* except RequestException, after last_exc = e
OnRequestException(a) ==
  IF a.attempt < MAX_RETRIES THEN Continue(Sleep(a, RETRY_DELAY))
  ELSE Continue(a)

\* if resp.status_code == 200: an exception of format_user_data is not a
\* ValueError, so it reaches except Exception of the loop: last_exc = e,
\* break
On200(a, body) ==
  IF Body200(body) = Raised
  THEN Break([a EXCEPT !.last_exc = AttributeError])
  ELSE Return(a, TRUE, Body200(body))

\* one iteration of the loop on what its request met
Attempt(a, resp) ==
  CASE resp.code = 200 -> On200(a, resp.body)
    [] resp.code = 401 -> On401(a)
    [] resp.code = 429 -> On429(a)
    [] resp.code = 0 /\ IsNetworkError(resp.exc) ->
         OnNetworkError([a EXCEPT !.last_exc = resp.exc])
    [] resp.code = 0 /\ ~IsNetworkError(resp.exc) /\ IsRequestException(resp.exc) ->
         OnRequestException([a EXCEPT !.last_exc = resp.exc])
    [] resp.code = 0 /\ ~IsRequestException(resp.exc) ->
         Break([a EXCEPT !.last_exc = resp.exc])
    [] OTHER -> OnOtherStatus(a, resp.code)

\* query_api(number) is called: url, last_exc = None, attempt = 1
query_api ==
  /\ api.pc = "idle"
  /\ api' = [NoApi EXCEPT !.pc = "loop", !.attempt = 1]
  /\ UNCHANGED <<ledgerAll, historyVars, manager, norm>>

\* one iteration of the loop: requests.get is called and meets resp
query_api_attempt(resp) ==
  /\ api.pc = "loop"
  /\ api' = Attempt([api EXCEPT !.requests = @ + 1, !.trace = Append(@, resp)], resp)
  /\ UNCHANGED <<ledgerAll, historyVars, manager, norm>>

QueryApiAttempt == \E resp \in Responses : query_api_attempt(resp)

(***************************************************************************)
(* Search history: search_history and bot_stats, written by                *)
(* add_to_history, the /clearhistory handler and the admin_reset callback. *)
(***************************************************************************)
NoLog == [count |-> 0, since |-> << >>]

\* search_entry: the k-th search of a user is for number k; result_found
\* is what query_api reported
SearchEntry(k, found) == [number |-> k, result_found |-> found]

\* l[-n:]
LastN(l, n) == IF Len(l) <= n THEN l ELSE SubSeq(l, Len(l) - n + 1, Len(l))

\* a history that drops the newest entry when it is full
AddToHistory_KeepFirst(h, u, e) ==
  LET h1 == IF u \in DOMAIN h THEN h ELSE Put(h, u, << >>)
      l  == Append(h1[u], e)
  IN  [h1 EXCEPT ![u] = IF Len(l) > HISTORY_LIMIT THEN SubSeq(l, 1, HISTORY_LIMIT) ELSE l]

\* add_to_history: search_history after the entry is appended to the
\* user's list and the list is cut to its last HISTORY_LIMIT entries
AddToHistory(h, u, e) ==
  LET h1 == IF u \in DOMAIN h THEN h ELSE Put(h, u, << >>)
      l  == Append(h1[u], e)
  IN  [h1 EXCEPT ![u] = IF Len(l) > HISTORY_LIMIT THEN LastN(l, HISTORY_LIMIT) ELSE l]

\* add_to_history(user_id, number, result_found)
add_to_history(u, found) ==
  /\ histLog[u].count < MaxAdds
  /\ LET e == SearchEntry(histLog[u].count + 1, found) IN
     /\ search_history' = AddToHistory(search_history, u, e)
     /\ histLog' = [histLog EXCEPT ![u] = [count |-> @.count + 1,
                                            since |-> Append(@.since, e)]]
  /\ bot_stats' = [bot_stats EXCEPT !.total_searches = @ + 1]
  /\ UNCHANGED <<ledgerAll, api, manager, norm>>

\* clear_history: /clearhistory from user u
clear_history(u) ==
  /\ IF u \in DOMAIN search_history
     THEN search_history' = [search_history EXCEPT ![u] = << >>]
     ELSE UNCHANGED search_history
  /\ histLog' = [histLog EXCEPT ![u].since = << >>]
  /\ UNCHANGED <<ledgerAll, api, manager, norm, bot_stats>>

\* the admin_reset callback from a sender; anybody else gets Access Denied
admin_reset(sender, username) ==
  /\ IF is_admin_by_user_id(sender, username)
     THEN /\ search_history' = EmptyUsers
          /\ bot_stats' = [bot_stats EXCEPT !.total_searches = 0]
          /\ histLog' = [u \in UserIds |-> [histLog[u] EXCEPT !.since = << >>]]
     ELSE UNCHANGED historyVars
  /\ UNCHANGED <<ledgerAll, api, manager, norm>>

\* result_found of the lookups that are recorded
HistoryOutcomes == {TRUE}
AddToHistoryStep == \E u \in UserIds, found \in HistoryOutcomes : add_to_history(u, found)
ClearHistory == \E u \in UserIds : clear_history(u)
AdminReset == \E s \in UserIds, p \in Profiles : admin_reset(s, p[1])

(***************************************************************************)
(* BotManager: the polling loop.  Delays are counted in half seconds, so   *)
(* that retry_delay * 1.5 stays a whole number.                            *)
(***************************************************************************)
HalfSeconds(seconds) == 2 * seconds

\* BotManager.__init__, with the position of start_polling and, as
\* history, the number of polling runs in a row that ended in an error
BotManager ==
  [pc |-> "idle", is_running |-> FALSE, consecutive_errors |-> 0,
   retry_delay |-> HalfSeconds(MIN_RETRY_DELAY), failed_runs |-> 0]

\* min(a, b)
Min(a, b) == IF a < b THEN a ELSE b

\* how a run of bot.infinity_polling ends
PollOutcomes == {"returned", "network_error", "general_error"}

\* _handle_network_error and _handle_general_error: count the error, stop
\* at max_consecutive_errors, else (network errors only) lengthen the delay
HandleError(m, outcome) ==
  LET n == m.consecutive_errors + 1 IN
  IF n >= max_consecutive_errors
  THEN [m EXCEPT !.consecutive_errors = n, !.is_running = FALSE]
  ELSE [m EXCEPT !.consecutive_errors = n,
                 !.retry_delay = IF outcome = "network_error"
                                 THEN Min((@ * 3) \div 2, HalfSeconds(max_retry_delay))
                                 ELSE @]

\* _adjust_retry_delay
AdjustRetryDelay(m) ==
  IF m.consecutive_errors = 0
  THEN [m EXCEPT !.retry_delay = HalfSeconds(MIN_RETRY_DELAY)]
  ELSE [m EXCEPT !.retry_delay = Min(@ * 2, HalfSeconds(max_retry_delay))]

\* start_polling is called: is_running = True
start_polling ==
  /\ manager.pc = "idle"
  /\ manager' = [manager EXCEPT !.pc = "loop", !.is_running = TRUE]
  /\ UNCHANGED <<ledgerAll, api, historyVars, norm>>

\* one pass of the try block: the webhook is removed, consecutive_errors
\* is set to 0, bot.infinity_polling runs and ends, and an exception is
\* handled
polling_run(outcome) ==
  /\ manager.pc = "loop"
  /\ manager.is_running
  /\ outcome # "returned" => manager.failed_runs < MaxRuns
  /\ LET m == [manager EXCEPT !.consecutive_errors = 0, !.pc = "ran",
                              !.failed_runs = IF outcome = "returned" THEN 0 ELSE @ + 1]
     IN  manager' = IF outcome = "returned" THEN m ELSE HandleError(m, outcome)
  /\ UNCHANGED <<ledgerAll, api, historyVars, norm>>

\* the end of the loop body: if self.is_running, sleep and adjust
polling_reconnect ==
  /\ manager.pc = "ran"
  /\ manager' = IF manager.is_running
                THEN [AdjustRetryDelay(manager) EXCEPT !.pc = "loop"]
                ELSE [manager EXCEPT !.pc = "loop"]
  /\ UNCHANGED <<ledgerAll, api, historyVars, norm>>

\* while self.is_running is false: start_polling returns
polling_exit ==
  /\ manager.pc = "loop"
  /\ ~manager.is_running
  /\ manager' = [manager EXCEPT !.pc = "stopped"]
  /\ UNCHANGED <<ledgerAll, api, historyVars, norm>>

\* BotManager.stop, called by main on KeyboardInterrupt
stop ==
  /\ manager.pc \in {"loop", "ran"}
  /\ manager.is_running
  /\ manager' = [manager EXCEPT !.is_running = FALSE]
  /\ UNCHANGED <<ledgerAll, api, historyVars, norm>>

PollingRun == \E outcome \in PollOutcomes : polling_run(outcome)

(***************************************************************************)
(* normalize_number.  A text is a sequence of characters.                  *)
(***************************************************************************)
DigitChars == <<"0", "1", "2", "3", "4", "5", "6", "7", "8", "9">>
\* \d
IsDigit(c) == \E i \in 1..Len(DigitChars) : DigitChars[i] = c
\* [\s\-\(\)\.]
Separators == {" ", "-", "(", ")", "."}
\* [A-Za-z], as far as the texts of the model go
AsciiLetters == {"a", "b", "c", "Z"}
\* letters outside A-Z and a-z
OtherLetters == {"é"}

\* Python None as the result
NoNumber == << >>
NoNorm == [pc |-> "idle", text |-> << >>, result |-> NoNumber]

\* str.strip()
RECURSIVE LStrip(_)
LStrip(t) == IF t # << >> /\ t[1] = " " THEN LStrip(Tail(t)) ELSE t
RECURSIVE RStrip(_)
RStrip(t) ==
  IF t # << >> /\ t[Len(t)] = " " THEN RStrip(SubSeq(t, 1, Len(t) - 1)) ELSE t
Strip(t) == RStrip(LStrip(t))

\* re.sub(r'[\s\-\(\)\.]', '', text)
IsKept(c) == c \notin Separators
Cleaned(t) == SelectSeq(t, IsKept)

\* re.sub(r'^\D+', '', cleaned)
RECURSIVE DropLeadingNonDigits(_)
DropLeadingNonDigits(t) ==
  IF t # << >> /\ ~IsDigit(t[1]) THEN DropLeadingNonDigits(Tail(t)) ELSE t

\* NUMBER_RE.match: ^\+?\d{10,15}$
NUMBER_RE(t) ==
  LET body == IF t # << >> /\ t[1] = "+" THEN Tail(t) ELSE t IN
  /\ Len(body) \in MinDigits..MaxDigits
  /\ \A i \in 1..Len(body) : IsDigit(body[i])

\* re.search(r'[A-Za-z]', cleaned)
HasLetter(t) == \E i \in 1..Len(t) : t[i] \in AsciiLetters

normalize_number(text) ==
  LET cleaned   == Cleaned(Strip(text))
      candidate == IF cleaned # << >> /\ cleaned[1] = "+" THEN cleaned
                   ELSE DropLeadingNonDigits(cleaned)
      digits    == SelectSeq(cleaned, IsDigit)
  IN  IF text = << >> \/ Strip(text) = << >> THEN NoNumber
      ELSE IF HasLetter(cleaned) THEN NoNumber
      ELSE IF NUMBER_RE(candidate) THEN candidate
      ELSE IF Len(digits) \in MinDigits..MaxDigits THEN digits
      ELSE NoNumber

\* the texts of the model: a run of digits, then a shorter one, with at
\* most one other character before, between and after them; and the
\* three texts of the design's scenario
DigitRun(k) == [i \in 1..k |-> DigitChars[((9 * i) % 10) + 1]]
AffixChars == {" ", "-", "+", "a", "é", "#", "7"}
Affixes == {<< >>} \cup { <<c>> : c \in AffixChars }
ScenarioTexts ==
  { <<" ", "9", "8", "-", "7", "6", " ", "5", "4", "3", "-", "2", "1", "0", " ">>,
    <<"+", "9", "1", " ", "9", "8", "7", "6", "5", " ", "4", "3", "2", "1", "0">>,
    <<"a", "b", "c", "1", "2", "3">> }
Text5(p, k, m, j, q) == p \o DigitRun(k) \o m \o DigitRun(j) \o q

\* a message text reaches normalize_number
normalize_call(text) ==
  /\ norm.pc = "idle"
  /\ norm' = [pc |-> "called", text |-> text, result |-> NoNumber]
  /\ UNCHANGED <<ledgerAll, api, historyVars, manager>>

\* normalize_number returns
normalize_return ==
  /\ norm.pc = "called"
  /\ norm' = [norm EXCEPT !.pc = "returned", !.result = normalize_number(norm.text)]
  /\ UNCHANGED <<ledgerAll, api, historyVars, manager>>

NormalizeCall ==
  /\ norm.pc = "idle"
  /\ \/ \E p \in Affixes, m \in Affixes, q \in Affixes, k \in 0..MaxRun, j \in 0..MaxTail :
          normalize_call(Text5(p, k, m, j, q))
     \/ \E text \in ScenarioTexts : normalize_call(text)

(***************************************************************************)
(* Initial state: nothing is constructed yet.  The store is what earlier   *)
(* runs of the add_subscription.py tool left: no file, or a file with a    *)
(* record for the admin (lifetime) and/or for the ordinary user.           *)
(***************************************************************************)
\* the file after add_subscription.py ran for the users of plans
ToolStore(plans) ==
  IF DOMAIN plans = {} THEN NoFile
  ELSE Written([u \in DOMAIN plans |-> ToolUserData("tool", "Tool", plans[u], 99)])

InitialPlans ==
  { f \in UNION { [D -> {"single", "premium", "lifetime"}] : D \in SUBSET UserIds } :
      ADMIN_USER_ID \in DOMAIN f => f[ADMIN_USER_ID] = "lifetime" }

InitWith(store, b, x, f) ==
  /\ now = 0
  /\ users = EmptyUsers
  /\ lock = NoThread
  /\ lastLoaded = None
  /\ file = store
  /\ backup = NoFile
  /\ pc = [t \in Threads |-> IF t = Main THEN "init_load" ELSE "idle"]
  /\ stack = [t \in Threads |-> << >>]
  /\ req = [t \in Threads |-> NoReq]
  /\ arg = [t \in Threads |-> NoArg]
  /\ sub = [t \in Threads |-> NoRef]
  /\ res = [t \in Threads |-> NoRes]
  /\ data = [t \in Threads |-> NoData]
  /\ budget = b
  /\ ext = x
  /\ fails = f
  /\ permQuota = [t \in Threads |-> 0]
  /\ calls = [u \in UserIds |-> 0]
  /\ didReset = [t \in Threads |-> FALSE]
  /\ usedBefore = [t \in Threads |-> NoUse]
  /\ api = NoApi
  /\ search_history = EmptyUsers
  /\ bot_stats = [total_searches |-> 0]
  /\ histLog = [u \in UserIds |-> NoLog]
  /\ manager = BotManager
  /\ norm = NoNorm

\* handler runs: one worker serves n messages in turn, or both serve one
OneWorker(n) == [t \in Workers |-> IF t = "w1" THEN n ELSE 0]
BothWorkers == [t \in Workers |-> 1]

\* two worker threads serve one message each, at one moment of the clock;
\* no file operation fails and the tool is not run
Init ==
  \E ps \in InitialPlans : InitWith(ToolStore(ps), BothWorkers, MaxExt, MaxFail)

\* one worker thread serves MaxReq messages in turn while time passes;
\* no file operation fails and the tool is not run
SeqInit ==
  \E ps \in InitialPlans : InitWith(ToolStore(ps), OneWorker(MaxReq), MaxExt, MaxFail)

\* one worker thread serves MaxReq - 1 messages; the tool may run and file
\* operations may fail
EnvInit ==
  \E ps \in InitialPlans : InitWith(ToolStore(ps), OneWorker(MaxReq - 1), 0, 0)

\* one worker thread serves MaxReq - 1 messages and the other one, at one
\* moment of the clock; no file operation fails and the tool is not run
AdminInit ==
  \E ps \in InitialPlans :
    InitWith(ToolStore(ps), [t \in Workers |-> IF t = "w1" THEN MaxReq - 1 ELSE 1],
             MaxExt, MaxFail)

\* one worker thread serves MaxReq - 1 messages at one moment of the
\* clock; file operations may fail and the tool is not run.  The store may
\* also be what a failed write of an earlier run left.
FailInit ==
  \E ps \in InitialPlans, broken \in BOOLEAN :
    InitWith(IF broken THEN Truncated ELSE ToolStore(ps),
             OneWorker(MaxReq - 1), MaxExt, 0)

(***************************************************************************)
(* Environment                                                             *)
(***************************************************************************)
\* Time passes.  A tick is half a day and a handler step takes
\* milliseconds, so the clock is advanced only while every thread is at a
\* point where it can stay for long: idle, constructed, waiting for a
\* lock somebody holds, or in the network call of query_api.
Resting(t) ==
  \/ pc[t] \in {"idle", "init_done", "h_query"}
  \/ pc[t] \in {"save_lock", "asu_lock"} /\ lock # NoThread

Tick ==
  /\ now < MaxTime
  /\ \A t \in Threads : Resting(t)
  /\ now' = now + 1
  /\ UNCHANGED <<auxVars, ledgerVars, storeVars, localVars, budget, ext, fails, histVars>>

\* add_subscription.py <user_id> tool Tool <plan> 99: read the file (a
\* missing file gives an empty document), set one user, write the file.
\* On a file json.load cannot parse the tool prints the error and writes
\* nothing.
add_subscription(user_id, plan) ==
  /\ ext < MaxExt
  /\ file.valid
  /\ ext' = ext + 1
  /\ file' = Written(Put(file.users, user_id, ToolUserData("tool", "Tool", plan, 99)))
  /\ lastLoaded' = Older(lastLoaded)
  /\ UNCHANGED <<auxVars, users, lock, backup, localVars, now, budget, fails, histVars>>

ExternalWrite == \E u \in UserIds, p \in ToolPlans : add_subscription(u, p)

\* The process stops while a thread is inside save_subscriptions (after the
\* store was renamed to .backup, part-way through the write, or after it)
\* and is started again: the memory of the old process is gone, the files
\* are what it left, and main() constructs a new SubscriptionManager.
process_restart ==
  /\ \E t \in Threads : pc[t] \in {"save_open", "save_write", "save_done"}
  /\ users' = EmptyUsers
  /\ lock' = NoThread
  /\ lastLoaded' = None
  /\ file' = IF file.exists THEN [file EXCEPT !.mtime = Late] ELSE file
  /\ pc' = [t \in Threads |-> IF t = Main THEN "init_load" ELSE "idle"]
  /\ stack' = [t \in Threads |-> << >>]
  /\ req' = [t \in Threads |-> NoReq]
  /\ arg' = [t \in Threads |-> NoArg]
  /\ sub' = [t \in Threads |-> NoRef]
  /\ res' = [t \in Threads |-> NoRes]
  /\ data' = [t \in Threads |-> NoData]
  /\ permQuota' = [t \in Threads |-> 0]
  /\ didReset' = [t \in Threads |-> FALSE]
  /\ usedBefore' = [t \in Threads |-> NoUse]
  /\ UNCHANGED <<auxVars, backup, envVars, calls>>

(***************************************************************************)
(* Calls and returns                                                       *)
(***************************************************************************)
\* return to the caller's position
ReturnTo(t) ==
  /\ pc' = [pc EXCEPT ![t] = Head(stack[t])]
  /\ stack' = [stack EXCEPT ![t] = Tail(@)]

\* call get_user_subscription(user_id, username, first_name), to return at ret
CallGet(t, u, username, first_name, ret) ==
  /\ pc' = [pc EXCEPT ![t] = "gus_reload"]
  /\ stack' = [stack EXCEPT ![t] = <<ret>>]
  /\ arg' = [arg EXCEPT ![t] = GetArg(u, username, first_name)]

(***************************************************************************)
(* SubscriptionManager.__init__, run by the main thread in main()          *)
(***************************************************************************)
\* load_subscriptions
load_subscriptions ==
  /\ pc[Main] = "init_load"
  /\ users' = LoadedUsers(file)
  /\ lastLoaded' = IF file.exists THEN Late ELSE lastLoaded
  /\ file' = Aged(file)
  /\ pc' = [pc EXCEPT ![Main] = "init_ensure"]
  /\ UNCHANGED <<auxVars, lock, backup, stack, req, arg, sub, res, data, envVars, histVars>>

\* the dict.update of _ensure_admin_subscription
AdminFixed(r) ==
  [r EXCEPT !.plan = "lifetime", !.is_admin = TRUE,
            !.expires = now + LifetimeDays * DayLen, !.payment_amount = 0]

\* _ensure_admin_subscription
ensure_admin_subscription ==
  /\ pc[Main] = "init_ensure"
  /\ IF ADMIN_USER_ID \notin DOMAIN users
     THEN /\ arg' = [arg EXCEPT ![Main] =
                       [uid |-> ADMIN_USER_ID, username |-> ADMIN_USERNAME,
                        first_name |-> "Admin", plan |-> "lifetime", amount |-> 0]]
          /\ pc' = [pc EXCEPT ![Main] = "asu_lock"]
          /\ stack' = [stack EXCEPT ![Main] = <<"init_done">>]
          /\ UNCHANGED users
     ELSE IF users[ADMIN_USER_ID].plan # "lifetime" \/ ~users[ADMIN_USER_ID].is_admin
     THEN /\ users' = [users EXCEPT ![ADMIN_USER_ID] = AdminFixed(@)]
          /\ pc' = [pc EXCEPT ![Main] = "save_lock"]
          /\ stack' = [stack EXCEPT ![Main] = <<"init_done">>]
          /\ UNCHANGED arg
     ELSE /\ pc' = [pc EXCEPT ![Main] = "init_done"]
          /\ UNCHANGED <<users, stack, arg>>
  /\ UNCHANGED <<auxVars, lock, lastLoaded, storeVars, req, sub, res, data, envVars, histVars>>

\* main() starts the bot and the web server once the manager is constructed
Started == pc[Main] = "init_done"

(***************************************************************************)
(* save_subscriptions                                                      *)
(***************************************************************************)
\* a with block that a worker thread leaves with the lock still held
WithLockExit_Keep(t) == IF t \in Workers THEN t ELSE NoThread

\* leaving the with self._lock block, by return or by exception: the
\* owner of the lock afterwards
WithLockExit(t) == NoThread

\* with self._lock: a threading.Lock blocks until nobody holds it,
\* the caller included
save_lock(t) ==
  /\ pc[t] = "save_lock"
  /\ lock = NoThread
  /\ lock' = t
  /\ pc' = [pc EXCEPT ![t] = "save_backup"]
  /\ UNCHANGED <<auxVars, users, lastLoaded, storeVars, stack, req, arg, sub, res, data, envVars, histVars>>

\* users_data is built, then the old .backup is removed and the store is
\* renamed to .backup; a failure of the backup (of the remove, or of the
\* rename after the remove) is logged and the save goes on
save_backup(t) ==
  /\ pc[t] = "save_backup"
  /\ data' = [data EXCEPT ![t] = Serialize(users)]
  /\ pc' = [pc EXCEPT ![t] = "save_open"]
  /\ IF file.exists
     THEN \/ /\ backup' = BackupOf(file)
             /\ file' = NoFile
             /\ UNCHANGED fails
          \/ /\ fails < MaxFail
             /\ fails' = fails + 1
             /\ \/ UNCHANGED <<file, backup>>
                \/ /\ backup.exists
                   /\ backup' = NoFile
                   /\ UNCHANGED file
     ELSE UNCHANGED <<file, backup, fails>>
  /\ UNCHANGED <<auxVars, ledgerVars, stack, req, arg, sub, res, now, budget, ext, histVars>>

\* open(..., 'w'): the store is created or truncated and is empty until
\* json.dump writes it.  On an exception of open the store is as it was;
\* save_subscriptions logs, leaves the with block and returns False.
save_open(t) ==
  /\ pc[t] = "save_open"
  /\ \/ /\ file' = Truncated
        /\ lastLoaded' = Older(lastLoaded)
        /\ pc' = [pc EXCEPT ![t] = "save_write"]
        /\ UNCHANGED <<lock, stack, data, fails>>
     \/ /\ fails < MaxFail
        /\ fails' = fails + 1
        /\ lock' = WithLockExit(t)
        /\ data' = [data EXCEPT ![t] = NoData]
        /\ ReturnTo(t)
        /\ UNCHANGED <<file, lastLoaded>>
  /\ UNCHANGED <<auxVars, users, backup, req, arg, sub, res, now, budget, ext, histVars>>

\* json.dump and the close of the file; on an exception the store stays
\* a file that is not a JSON document, and save_subscriptions logs, leaves
\* the with block and returns False
save_write(t) ==
  /\ pc[t] = "save_write"
  /\ \/ /\ file' = Written(data[t])
        /\ lastLoaded' = Older(lastLoaded)
        /\ pc' = [pc EXCEPT ![t] = "save_done"]
        /\ UNCHANGED <<lock, stack, data, fails>>
     \/ /\ fails < MaxFail
        /\ fails' = fails + 1
        /\ lock' = WithLockExit(t)
        /\ data' = [data EXCEPT ![t] = NoData]
        /\ ReturnTo(t)
        /\ file' = Truncated
        /\ lastLoaded' = Older(lastLoaded)
  /\ UNCHANGED <<auxVars, users, backup, req, arg, sub, res, now, budget, ext, histVars>>

\* self._last_loaded = datetime.now(); return True
save_done(t) ==
  /\ pc[t] = "save_done"
  /\ lastLoaded' = Late
  /\ file' = Aged(file)
  /\ lock' = WithLockExit(t)
  /\ data' = [data EXCEPT ![t] = NoData]
  /\ ReturnTo(t)
  /\ UNCHANGED <<auxVars, users, backup, req, arg, sub, res, envVars, histVars>>

(***************************************************************************)
(* add_subscription_user                                                   *)
(***************************************************************************)
\* with self._lock: build user_data, self.users[user_id] = user_data, then
\* call save_subscriptions
add_subscription_user(t) ==
  /\ pc[t] = "asu_lock"
  /\ lock = NoThread
  /\ lock' = t
  /\ users' = Put(users, arg[t].uid,
                  NewUserData(arg[t].uid, arg[t].username, arg[t].first_name,
                              arg[t].plan, arg[t].amount))
  /\ sub' = [Detach(sub, {arg[t].uid} \cap DOMAIN users) EXCEPT ![t] = LiveRef(arg[t].uid)]
  /\ pc' = [pc EXCEPT ![t] = "save_lock"]
  /\ stack' = [stack EXCEPT ![t] = <<"asu_ret">> \o @]
  /\ UNCHANGED <<auxVars, lastLoaded, storeVars, req, arg, res, data, envVars, histVars>>

\* leaving the with block of add_subscription_user and returning user_data
add_subscription_user_return(t) ==
  /\ pc[t] = "asu_ret"
  /\ lock' = WithLockExit(t)
  /\ ReturnTo(t)
  /\ UNCHANGED <<auxVars, users, lastLoaded, storeVars, req, arg, sub, res, data, envVars, histVars>>

(***************************************************************************)
(* get_user_subscription                                                   *)
(***************************************************************************)
\* subscription_manager.reload_if_needed(): no lock is taken
reload_if_needed(t) ==
  /\ pc[t] = "gus_reload"
  /\ IF ReloadNeeded
     THEN /\ users' = LoadedUsers(file)
          /\ lastLoaded' = Late
          /\ file' = Aged(file)
          /\ sub' = [Detach(sub, DOMAIN users) EXCEPT ![t] = NoRef]
     ELSE /\ sub' = [sub EXCEPT ![t] = NoRef]
          /\ UNCHANGED <<users, lastLoaded, file>>
  /\ pc' = [pc EXCEPT ![t] = "gus_body"]
  /\ UNCHANGED <<auxVars, lock, backup, stack, req, arg, res, data, envVars, histVars>>

\* the arguments of the add_subscription_user call for an unseen user id
NewUserArg(u, username, first_name) ==
  IF is_admin_by_user_id(u, username)
  THEN [uid |-> u, username |-> NameOr(username, ADMIN_USERNAME),
        first_name |-> NameOr(first_name, "Admin"), plan |-> "lifetime", amount |-> 0]
  ELSE [uid |-> u, username |-> username, first_name |-> first_name,
        plan |-> "free", amount |-> 0]

\* the rest of get_user_subscription up to its save or return: an unseen
\* id goes to add_subscription_user; a known record gets its display
\* fields, expiry downgrade and daily reset, and is saved when one applied
get_user_subscription(t) ==
  /\ pc[t] = "gus_body"
  /\ LET u == arg[t].uid IN
     IF u \notin DOMAIN users
     THEN /\ arg' = [arg EXCEPT ![t] = NewUserArg(u, arg[t].username, arg[t].first_name)]
          /\ pc' = [pc EXCEPT ![t] = "asu_lock"]
          /\ didReset' = [didReset EXCEPT ![t] = FALSE]
          /\ UNCHANGED <<users, sub, stack>>
     ELSE LET r == Touched(users[u], arg[t].username, arg[t].first_name) IN
          /\ users' = [users EXCEPT ![u] = r]
          /\ sub' = [sub EXCEPT ![t] = LiveRef(u)]
          /\ didReset' = [didReset EXCEPT ![t] =
                            ResetDue(users[u]) /\ users[u].searches_used > 0]
          /\ IF r # users[u]
             THEN /\ pc' = [pc EXCEPT ![t] = "save_lock"]
                  /\ UNCHANGED stack
             ELSE ReturnTo(t)
          /\ UNCHANGED arg
  /\ UNCHANGED <<auxVars, lock, lastLoaded, storeVars, req, res, data, envVars, permQuota, calls,
                 usedBefore>>

(***************************************************************************)
(* can_user_search and use_search_credit                                   *)
(***************************************************************************)
\* a handler that goes on whatever the text is
Proceeds_Always(r) == TRUE

\* the handler goes on to use_search_credit: handle_all_messages has
\* normalized the text before it asked can_user_search, handle_check
\* splits and normalizes it after
Proceeds(r) == r.op = "msg" \/ r.valid

\* can_user_search after its get_user_subscription call, and the handler
\* up to its next ledger call: a plan missing from subscription_plans
\* raises KeyError, which ends the handler; a refusal or an unparsable
\* number ends it with a reply; otherwise use_search_credit is called
can_user_search(t) ==
  /\ pc[t] = "cus_decide"
  /\ LET r == SubRec(t) IN
     IF ~r.is_admin /\ r.plan \notin DOMAIN subscription_plans
     THEN /\ pc' = [pc EXCEPT ![t] = "h_end"]
          /\ UNCHANGED <<res, permQuota, stack, arg>>
     ELSE /\ res' = [res EXCEPT ![t] = CanSearch(r)]
          /\ permQuota' = [permQuota EXCEPT ![t] =
                IF r.plan \in DOMAIN subscription_plans
                THEN subscription_plans[r.plan].searches_per_day ELSE 0]
          /\ IF CanSearch(r).allowed /\ Proceeds(req[t])
             THEN CallGet(t, req[t].uid, NoName, NoName, "usc_inc")
             ELSE /\ pc' = [pc EXCEPT ![t] = "h_end"]
                  /\ UNCHANGED <<stack, arg>>
  /\ usedBefore' = [usedBefore EXCEPT ![t].decided = SubRec(t).searches_used]
  /\ UNCHANGED <<auxVars, ledgerVars, storeVars, req, sub, data, envVars, calls, didReset>>

\* use_search_credit after its get_user_subscription call: the counters
\* are written to the dict the call returned, then the map is saved
use_search_credit(t) ==
  /\ pc[t] = "usc_inc"
  /\ IF sub[t].live
     THEN /\ users' = [users EXCEPT ![sub[t].uid] = Consume(@)]
          /\ UNCHANGED sub
     ELSE /\ sub' = [sub EXCEPT ![t].rec = Consume(@)]
          /\ UNCHANGED users
  /\ pc' = [pc EXCEPT ![t] = "save_lock"]
  /\ stack' = [stack EXCEPT ![t] = <<"h_query">>]
  /\ calls' = [calls EXCEPT ![sub[t].uid] = @ + 1]
  /\ UNCHANGED <<auxVars, lock, lastLoaded, storeVars, req, arg, res, data, envVars, permQuota,
                 didReset, usedBefore>>

(***************************************************************************)
(* Handlers                                                                *)
(***************************************************************************)
\* searches_used of the stored record of u, 0 for a user not yet stored
UsedOf(u) == IF u \in DOMAIN users THEN users[u].searches_used ELSE 0

CanStart(t) ==
  /\ Started
  /\ pc[t] = "idle"
  /\ budget[t] > 0

\* handle_check: /check <text> from sender u
handle_check(t, u, profile, valid) ==
  /\ CanStart(t)
  /\ budget' = [budget EXCEPT ![t] = @ - 1]
  /\ req' = [req EXCEPT ![t] = [op |-> "check", uid |-> u, sender |-> u, username |-> profile[1],
                                first_name |-> profile[2], valid |-> valid,
                                found |-> "none"]]
  /\ valid \/ profile = <<NoName, NoName>>
  /\ CallGet(t, u, NoName, NoName, "cus_decide")
  /\ usedBefore' = [usedBefore EXCEPT ![t] = [start |-> UsedOf(u), decided |-> 0]]
  /\ UNCHANGED <<auxVars, ledgerVars, storeVars, sub, res, data, now, ext, fails,
                 permQuota, calls, didReset>>

\* handle_all_messages: a bare message from sender u.  A text that
\* normalize_number rejects gets the suggestion reply and nothing else.
handle_all_messages(t, u, valid) ==
  /\ CanStart(t)
  /\ budget' = [budget EXCEPT ![t] = @ - 1]
  /\ IF valid
     THEN /\ req' = [req EXCEPT ![t] = [op |-> "msg", uid |-> u, sender |-> u,
                                        username |-> NoName, first_name |-> NoName,
                                        valid |-> TRUE, found |-> "none"]]
          /\ CallGet(t, u, NoName, NoName, "cus_decide")
          /\ usedBefore' = [usedBefore EXCEPT ![t] =
                              [start |-> UsedOf(u), decided |-> 0]]
     ELSE UNCHANGED <<pc, stack, req, arg, usedBefore>>
  /\ UNCHANGED <<auxVars, ledgerVars, storeVars, sub, res, data, now, ext, fails,
                 permQuota, calls, didReset>>

\* my_stats and the subscription callbacks: get_user_subscription(user_id)
my_stats(t, u) ==
  /\ CanStart(t)
  /\ budget' = [budget EXCEPT ![t] = @ - 1]
  /\ req' = [req EXCEPT ![t] = [op |-> "stats", uid |-> u, sender |-> u, username |-> NoName,
                                first_name |-> NoName, valid |-> FALSE,
                                found |-> "none"]]
  /\ CallGet(t, u, NoName, NoName, "h_end")
  /\ UNCHANGED <<auxVars, ledgerVars, storeVars, sub, res, data, now, ext, fails, histVars>>

\* handle_all_messages in admin_subscription_mode: the admin sends the
\* target user id after choosing a plan with admin_sub_single/_lifetime
admin_add_subscription(t, sender, profile, target, plan) ==
  /\ CanStart(t)
  /\ is_admin_by_user_id(sender, profile[1])
  /\ budget' = [budget EXCEPT ![t] = @ - 1]
  /\ req' = [req EXCEPT ![t] = [op |-> "admin_add", uid |-> target, sender |-> sender,
                                username |-> profile[1], first_name |-> profile[2],
                                valid |-> FALSE, found |-> "none"]]
  /\ arg' = [arg EXCEPT ![t] =
       [uid |-> target,
        username   |-> IF target \in DOMAIN users THEN users[target].username ELSE "N/A",
        first_name |-> IF target \in DOMAIN users THEN users[target].first_name ELSE "N/A",
        plan |-> plan, amount |-> subscription_plans[plan].price]]
  /\ pc' = [pc EXCEPT ![t] = "asu_lock"]
  /\ stack' = [stack EXCEPT ![t] = <<"h_end">>]
  /\ UNCHANGED <<auxVars, ledgerVars, storeVars, sub, res, data, now, ext, fails, histVars>>

\* after use_search_credit: its log line reads subscription_plans[plan]
\* (KeyError ends the handler); then query_api and add_to_history, which
\* touch no ledger state; then get_user_subscription for the footer.
\* query_api returns success or failure as the remote service decides.
query_and_footer(t) ==
  /\ pc[t] = "h_query"
  /\ IF SubRec(t).plan \in DOMAIN subscription_plans
     THEN /\ \E outcome \in QueryOutcomes :
               req' = [req EXCEPT ![t].found = outcome]
          /\ IF req[t].op = "check"
             THEN CallGet(t, req[t].uid, req[t].username, req[t].first_name, "h_end")
             ELSE CallGet(t, req[t].uid, NoName, NoName, "h_end")
     ELSE /\ pc' = [pc EXCEPT ![t] = "h_end"]
          /\ UNCHANGED <<stack, arg, req>>
  /\ UNCHANGED <<auxVars, ledgerVars, storeVars, sub, res, data, envVars, histVars>>

\* the handler replies and returns; its locals die
handler_end(t) ==
  /\ pc[t] = "h_end"
  /\ pc' = [pc EXCEPT ![t] = "idle"]
  /\ stack' = [stack EXCEPT ![t] = << >>]
  /\ req' = [req EXCEPT ![t] = NoReq]
  /\ arg' = [arg EXCEPT ![t] = NoArg]
  /\ sub' = [sub EXCEPT ![t] = NoRef]
  /\ res' = [res EXCEPT ![t] = NoRes]
  /\ permQuota' = [permQuota EXCEPT ![t] = 0]
  /\ didReset' = [didReset EXCEPT ![t] = FALSE]
  /\ usedBefore' = [usedBefore EXCEPT ![t] = NoUse]
  /\ UNCHANGED <<auxVars, ledgerVars, storeVars, data, envVars, calls>>

(***************************************************************************)
(* Specification                                                           *)
(***************************************************************************)
HandleCheck == \E t \in Workers, u \in UserIds, p \in Profiles, v \in BOOLEAN :
                 handle_check(t, u, p, v)
HandleMessage == \E t \in Workers, u \in UserIds, v \in BOOLEAN :
                   handle_all_messages(t, u, v)
MyStats == \E t \in Workers, u \in UserIds : my_stats(t, u)
AdminAdd == \E t \in Workers, s \in UserIds, p \in Profiles, u \in UserIds,
               plan \in {"single", "lifetime"} :
                 admin_add_subscription(t, s, p, u, plan)
ReloadIfNeeded == \E t \in Workers : reload_if_needed(t)
GetUserSubscription == \E t \in Workers : get_user_subscription(t)
CanUserSearch == \E t \in Workers : can_user_search(t)
UseSearchCredit == \E t \in Workers : use_search_credit(t)
QueryAndFooter == \E t \in Workers : query_and_footer(t)
HandlerEnd == \E t \in Workers : handler_end(t)
AddSubscriptionUser == \E t \in Threads : add_subscription_user(t)
SaveLock == \E t \in Threads : save_lock(t)
SaveBackup == \E t \in Threads : save_backup(t)
SaveOpen == \E t \in Threads : save_open(t)
SaveWrite == \E t \in Threads : save_write(t)
SaveDone == \E t \in Threads : save_done(t)

Program ==
  \/ load_subscriptions
  \/ ensure_admin_subscription
  \/ HandleCheck
  \/ HandleMessage
  \/ MyStats
  \/ AdminAdd
  \/ ReloadIfNeeded
  \/ GetUserSubscription
  \/ CanUserSearch
  \/ UseSearchCredit
  \/ QueryAndFooter
  \/ HandlerEnd
  \/ AddSubscriptionUser
  \/ SaveLock
  \/ SaveBackup
  \/ SaveOpen
  \/ SaveWrite
  \/ SaveDone

\* the process: the constructor and two worker threads
Next == Program

Spec == Init /\ [][Next]_vars

\* the process and the clock
SeqNext == Tick \/ Program

SeqSpec == SeqInit /\ [][SeqNext]_vars

\* the process, the admin tool and a failing file system
EnvNext == ExternalWrite \/ Program

EnvSpec == EnvInit /\ [][EnvNext]_vars

\* the /check and admin subscription handlers on two threads
AdminNext ==
  \/ load_subscriptions
  \/ ensure_admin_subscription
  \/ HandleCheck
  \/ AdminAdd
  \/ ReloadIfNeeded
  \/ GetUserSubscription
  \/ CanUserSearch
  \/ UseSearchCredit
  \/ QueryAndFooter
  \/ HandlerEnd
  \/ AddSubscriptionUser
  \/ SaveLock
  \/ SaveBackup
  \/ SaveOpen
  \/ SaveWrite
  \/ SaveDone

AdminSpec == AdminInit /\ [][AdminNext]_vars

\* the process on a failing file system
FailSpec == FailInit /\ [][Program]_vars

\* the process under a scheduler that runs a thread that can run
LiveSpec == SeqInit /\ [][Program]_vars /\ WF_vars(Program)

\* one worker thread serves MaxReq - 1 messages while time passes and the
\* admin tool is run; the store has the admin's record; no file operation
\* fails
PlanInit ==
  InitWith(ToolStore([u \in {ADMIN_USER_ID} |-> "lifetime"]), OneWorker(MaxReq - 1),
           0, MaxFail)

PlanNext == Tick \/ ExternalWrite \/ Program

PlanSpec == PlanInit /\ [][PlanNext]_vars

\* one worker thread serves MaxReq - 1 messages at one moment of the
\* clock; no file operation fails and the tool is not run, but the process
\* may stop inside a save and be started again
RestartInit ==
  \E ps \in InitialPlans : InitWith(ToolStore(ps), OneWorker(MaxReq - 1), MaxExt, MaxFail)

RestartNext == process_restart \/ Program

RestartSpec == RestartInit /\ [][RestartNext]_vars

(***************************************************************************)
(* Quota run: one worker serves the bare-number messages of the ordinary   *)
(* user, one after the other, at one moment of the clock, until the        *)
(* largest daily quota is used up.                                         *)
(***************************************************************************)
OtherUser == ADMIN_USER_ID + 1

\* the store with the admin and the ordinary user on plan p, both unused.
\* The tool writes single and lifetime; a free record is what the bot
\* saves for a single plan after its expiry downgrade.
QuotaStore(p) ==
  LET u == IF p = "free"
           THEN [ToolUserData("tool", "Tool", "single", 99) EXCEPT
                   !.plan = "free", !.expires = JsonNull, !.status = "expired"]
           ELSE ToolUserData("tool", "Tool", p, 99)
  IN Written([x \in UserIds |-> IF x = ADMIN_USER_ID
                                 THEN ToolUserData("tool", "Tool", "lifetime", 99)
                                 ELSE u])

QuotaInit ==
  \E p \in DOMAIN subscription_plans :
    InitWith(QuotaStore(p),
             OneWorker(subscription_plans["lifetime"].searches_per_day + 1),
             MaxExt, MaxFail)

QuotaMessage == handle_all_messages("w1", OtherUser, TRUE)

QuotaNext ==
  \/ load_subscriptions
  \/ ensure_admin_subscription
  \/ QuotaMessage
  \/ ReloadIfNeeded
  \/ GetUserSubscription
  \/ CanUserSearch
  \/ UseSearchCredit
  \/ QueryAndFooter
  \/ HandlerEnd
  \/ SaveLock
  \/ SaveBackup
  \/ SaveOpen
  \/ SaveWrite
  \/ SaveDone

QuotaSpec == QuotaInit /\ [][QuotaNext]_vars

(***************************************************************************)
(* Lookup run: query_api calls on every sequence of responses              *)
(***************************************************************************)
QueryInit == InitWith(NoFile, [t \in Workers |-> 0], MaxExt, MaxFail)

QueryNext == query_api \/ QueryApiAttempt

QuerySpec == QueryInit /\ [][QueryNext]_vars

\* the same run by a thread that is scheduled: requests.get returns or
\* raises within REQUEST_TIMEOUT and every sleep ends
QueryLiveSpec == QuerySpec /\ WF_vars(QueryNext)

(***************************************************************************)
(* History run: searches are recorded, users clear their history and the   *)
(* admin resets the statistics.  The ledger is not constructed.            *)
(***************************************************************************)
HistoryNext == AddToHistoryStep \/ ClearHistory \/ AdminReset

HistorySpec == QueryInit /\ [][HistoryNext]_vars

(***************************************************************************)
(* Polling run: start_polling on a transport that may fail, and stop       *)
(***************************************************************************)
PollNext == start_polling \/ PollingRun \/ polling_reconnect \/ polling_exit \/ stop

PollSpec == QueryInit /\ [][PollNext]_vars

(***************************************************************************)
(* Normalization run: normalize_number on the texts of the model           *)
(***************************************************************************)
NormNext == NormalizeCall \/ normalize_return

NormSpec == QueryInit /\ [][NormNext]_vars

(***************************************************************************)
(* Properties                                                              *)
(***************************************************************************)
\* the step in which thread t leaves position p
Leaves(t, p) == pc[t] = p /\ pc'[t] # p

\* the daily quota of each plan, as the quota table of the design states it
DailyQuota(plan) ==
  CASE plan = "free"     -> 0
    [] plan = "single"   -> 1
    [] plan = "lifetime" -> 999

KnownPlan(r) == r.plan \in {"free", "single", "lifetime"}
Allowed == [allowed |-> TRUE, reason |-> ""]

\* C1: can_user_search decides on a record to which the lazy expiry and
\* daily reset have been applied; it returns (true, "") for an admin record,
\* and for a non-admin record it allows exactly when searches_used is below
\* the daily quota of the plan (free 0, single 1, lifetime 999), so a
\* non-admin free-plan user is never allowed.
C1_CanSearchDecision ==
  [][\A t \in Workers :
       Leaves(t, "cus_decide") =>
         LET r == SubRec(t) IN
         /\ ~Expired(r) /\ ~ResetDue(r)
         /\ r.is_admin => res'[t] = Allowed
         /\ (~r.is_admin /\ KnownPlan(r)) =>
              /\ res'[t].allowed = (r.searches_used < DailyQuota(r.plan))
              /\ res'[t].allowed => res'[t] = Allowed
              /\ r.plan = "free" => ~res'[t].allowed]_vars

\* a single-plan user who used the one search of the day has been refused
C1_Witness ==
  \E t \in Workers :
    /\ pc[t] = "h_end"
    /\ sub[t].uid # None
    /\ ~SubRec(t).is_admin
    /\ SubRec(t).plan = "single"
    /\ SubRec(t).searches_used = 1
    /\ res[t] = [allowed |-> FALSE, reason |-> "limit"]

\* C2: for a non-admin record on a plan with daily quota q that starts the
\* day unused, can_user_search after exactly q use_search_credit calls
\* refuses with a non-empty reason, and after exactly q-1 calls (q >= 1)
\* returns (true, "").
C2_QuotaBoundary ==
  [][\A t \in Workers :
       (Leaves(t, "cus_decide") /\ ~SubRec(t).is_admin /\ KnownPlan(SubRec(t))) =>
         LET q == DailyQuota(SubRec(t).plan)
             n == calls[sub[t].uid] IN
         /\ n = q => (~res'[t].allowed /\ res'[t].reason # "")
         /\ (q >= 1 /\ n = q - 1) => res'[t] = Allowed]_vars

\* the lifetime user has been refused after 999 credits
C2_Witness ==
  \E t \in Workers :
    /\ pc[t] = "h_end"
    /\ sub[t].uid = OtherUser
    /\ SubRec(t).plan = "lifetime"
    /\ calls[OtherUser] = 999
    /\ ~res[t].allowed /\ res[t].reason # ""

\* C3: every add_subscription_user call, whether made by the admin chat
\* flow, by get_user_subscription for an unseen user id or by the
\* constructor for the admin, eventually comes back from its save with the
\* record, and the ledger lock it took is eventually free again.
C3_UpsertReturns ==
  \A t \in Threads :
    /\ (pc[t] = "asu_lock") ~> (pc[t] = "asu_ret")
    /\ (lock = t) ~> (lock # t)

\* C4: when two threads handle searches of the same non-admin user, a
\* permitted search (can_user_search allowed, then use_search_credit) never
\* takes searches_used above the daily quota of the user's plan.
C4_PermittedWithinQuota ==
  [][\A t \in Workers :
       (Leaves(t, "usc_inc") /\ ~SubRec(t).is_admin /\ KnownPlan(SubRec(t))) =>
         SubRec(t)'.searches_used <= DailyQuota(SubRec(t).plan)]_vars

\* C5: once the manager is constructed, every step that writes a user
\* record or the users map is taken by a thread that holds the ledger lock
\* (or takes it in that step).
C5_WritesUnderLock ==
  [][(Started /\ users' # users) =>
       \E t \in Threads : pc'[t] # pc[t] /\ (lock = t \/ lock' = t)]_vars

\* C6: on a record with is_admin = true, can_user_search returns (true, "")
\* whatever the plan and the number of credits used, and use_search_credit
\* leaves searches_used as it is and adds one to total_searches.
C6_AdminUnlimited ==
  [][\A t \in Workers :
       /\ (Leaves(t, "cus_decide") /\ SubRec(t).is_admin) => res'[t] = Allowed
       /\ (Leaves(t, "usc_inc") /\ SubRec(t).is_admin) =>
            /\ SubRec(t)'.searches_used = SubRec(t).searches_used
            /\ SubRec(t)'.total_searches = SubRec(t).total_searches + 1]_vars

\* the admin has searched twice and is allowed with no search counted
C6_Witness ==
  \E t \in Workers :
    /\ pc[t] = "h_query"
    /\ sub[t].uid # None
    /\ SubRec(t).is_admin
    /\ SubRec(t).total_searches >= 2
    /\ SubRec(t).searches_used = 0
    /\ res[t] = Allowed

\* C7: get_user_subscription on a record whose last_reset is not today
\* sets searches_used to 0 and last_reset to today; when it zeroed a
\* non-zero counter inside can_user_search, the decision that follows is
\* taken on the zeroed counter: allowed exactly when the record is admin or
\* the plan's quota is above 0.
C7_DailyReset ==
  [][\A t \in Workers :
       /\ (Leaves(t, "gus_body") /\ arg[t].uid \in DOMAIN users
             /\ ResetDue(users[arg[t].uid])) =>
            /\ users'[arg[t].uid].searches_used = 0
            /\ users'[arg[t].uid].last_reset = Today
       /\ (Leaves(t, "cus_decide") /\ didReset[t]) =>
            /\ SubRec(t).searches_used = 0
            /\ SubRec(t).last_reset = Today
            /\ KnownPlan(SubRec(t)) =>
                 res'[t].allowed = (SubRec(t).is_admin \/ 0 < DailyQuota(SubRec(t).plan))]_vars

\* a non-admin user who had searched on an earlier day is allowed again
\* on the zeroed counter
C7_Witness ==
  \E t \in Workers :
    /\ didReset[t]
    /\ pc[t] = "gus_reload"
    /\ stack[t] = <<"usc_inc">>
    /\ ~SubRec(t).is_admin
    /\ SubRec(t).searches_used = 0
    /\ SubRec(t).total_searches > 0
    /\ SubRec(t).last_reset = Today
    /\ res[t] = Allowed

\* C8: get_user_subscription, the first step of every access, on a
\* single-plan record whose expires is before now sets plan to free,
\* clears expires, sets status to expired and goes on to save, and the
\* save writes the map it has; a status becomes expired only in such a step
\* for that user, never in a step of the clock.
C8_LazyExpiry ==
  [][/\ \A t \in Workers :
          /\ (Leaves(t, "gus_body") /\ arg[t].uid \in DOMAIN users
                /\ users[arg[t].uid].plan = "single" /\ Expired(users[arg[t].uid])) =>
               /\ users'[arg[t].uid].plan = "free"
               /\ users'[arg[t].uid].expires = None
               /\ users'[arg[t].uid].status = "expired"
               /\ pc'[t] = "save_lock"
          /\ (pc[t] = "save_write" /\ pc'[t] = "save_done") =>
               file'.users = Serialize(users)
     /\ \A u \in UserIds :
          (u \in DOMAIN users /\ u \in DOMAIN users'
             /\ users[u].status # "expired" /\ users'[u].status = "expired") =>
            \E t \in Workers :
              Leaves(t, "gus_body") /\ arg[t].uid = u /\ Expired(users[u])]_vars

\* a one-day plan has run out, was downgraded on an access and saved
C8_Witness ==
  \E u \in UserIds :
    /\ u \in DOMAIN users
    /\ users[u].plan = "free"
    /\ users[u].expires = None
    /\ users[u].status = "expired"
    /\ file.exists
    /\ u \in DOMAIN file.users
    /\ file.users[u] = SerializeUser(users[u])
    /\ lock = NoThread

\* the postcondition of add_subscription_user for the call thread t is in
UpsertDone(t) ==
  LET u == arg[t].uid IN
  /\ pc[t] = "asu_ret"
  /\ u \in DOMAIN users
  /\ users[u].plan = arg[t].plan
  /\ users[u].payment_amount = arg[t].amount
  /\ users[u].searches_used = 0
  /\ users[u].status = "active"
  /\ users[u].expires = CASE arg[t].plan = "single"   -> now + 1 * DayLen
                          [] arg[t].plan = "lifetime" -> now + LifetimeDays * DayLen
                          [] OTHER                    -> None
  /\ file.exists
  /\ u \in DOMAIN file.users
  /\ file.users[u] = SerializeUser(users[u])

\* C9: every add_subscription_user(u, plan, amount) call comes to its
\* return with a record for u in the ledger that has the given plan and
\* amount, searches_used 0, status active and the expiry of the plan, and
\* with that record written to the store.
C9_UpsertPostcondition ==
  \A t \in Threads : (pc[t] = "asu_lock") ~> UpsertDone(t)

\* the record get_user_subscription creates for an unseen user id
FirstContactRecord(r, admin) ==
  /\ r.plan = (IF admin THEN "lifetime" ELSE "free")
  /\ r.is_admin = admin
  /\ r.expires = (IF admin THEN now + LifetimeDays * DayLen ELSE None)
  /\ r.searches_used = 0
  /\ r.total_searches = 0
  /\ r.status = "active"

\* C10: a get_user_subscription call for a user id absent from the ledger
\* returns to its caller with one record for that id in the ledger and in
\* the store: lifetime, admin and far expiry for the admin identity,
\* otherwise free, not admin and no expiry; unused and active in both cases.
C10_FirstContactCreates ==
  \A t \in Workers : \A u \in UserIds :
    (pc[t] = "gus_body" /\ arg[t].uid = u /\ u \notin DOMAIN users) ~>
      (/\ pc[t] \in {"cus_decide", "usc_inc", "h_end"}
       /\ u \in DOMAIN users
       /\ FirstContactRecord(users[u], u = ADMIN_USER_ID)
       /\ file.exists
       /\ u \in DOMAIN file.users
       /\ file.users[u] = SerializeUser(users[u]))

\* the positions a get_user_subscription call returns to
GetReturnPositions == {"cus_decide", "usc_inc", "h_end"}

\* the step in which the get_user_subscription call of thread t returns,
\* directly or out of its save_subscriptions
GetReturns(t) ==
  /\ pc[t] \in {"gus_body", "save_open", "save_write", "save_done"}
  /\ pc'[t] \in GetReturnPositions

\* C11: when a get_user_subscription call for a known user returns, a
\* second call with the same arguments at the same moment would find
\* nothing to reload and no field to change; and the second call the model
\* runs right after the first (use_search_credit's, after
\* can_user_search's) reloads nothing, changes no record, adds or removes
\* no user and returns without a save.
C11_GetIdempotent ==
  [][\A t \in Workers :
       /\ GetReturns(t) =>
            /\ arg[t].uid \in DOMAIN users'
            /\ ~ReloadNeeded'
            /\ (Touched(users[arg[t].uid], arg[t].username, arg[t].first_name)
                  = users[arg[t].uid])'
       /\ (Leaves(t, "gus_reload") /\ stack[t] = <<"usc_inc">>) =>
            UNCHANGED <<users, file, lastLoaded>>
       /\ (Leaves(t, "gus_body") /\ stack[t] = <<"usc_inc">>) =>
            /\ users' = users
            /\ pc'[t] = "usc_inc"]_vars

\* the second of two successive calls has returned, on a later day, for a
\* record the first call had reset
C11_Witness ==
  \E t \in Workers :
    /\ pc[t] = "usc_inc"
    /\ sub[t].live
    /\ Today >= 1
    /\ SubRec(t).last_reset = Today
    /\ SubRec(t).searches_used = 0
    /\ SubRec(t).total_searches >= 1

\* the fields of a record that a save and a load have to carry over
SameLogicalRecord(a, b) ==
  /\ a.plan = b.plan
  /\ a.expires = b.expires
  /\ a.searches_used = b.searches_used
  /\ a.last_reset = b.last_reset
  /\ a.total_searches = b.total_searches
  /\ a.payment_amount = b.payment_amount
  /\ a.status = b.status
  /\ a.is_admin = b.is_admin

\* C12: when save_subscriptions has written the store, load_subscriptions
\* on the written store gives a ledger with the users of the saved one and
\* no other, each with the same plan, expires, searches_used, last_reset,
\* total_searches, payment_amount, status and is_admin.
C12_SaveLoadRoundTrip ==
  [][\A t \in Threads :
       (pc[t] = "save_write" /\ pc'[t] = "save_done") =>
         /\ DOMAIN LoadedUsers(file') = DOMAIN users
         /\ \A u \in DOMAIN users :
              SameLogicalRecord(LoadedUsers(file')[u], users[u])]_vars

\* a store was written for the admin and an ordinary user who has a dated
\* expiry and a search counted today
C12_Witness ==
  \E t \in Threads :
    /\ pc[t] = "save_done"
    /\ DOMAIN users = UserIds
    /\ users[OtherUser].expires # None
    /\ users[OtherUser].searches_used >= 1
    /\ DOMAIN LoadedUsers(file) = UserIds
    /\ SameLogicalRecord(LoadedUsers(file)[OtherUser], users[OtherUser])

\* the users section of the store is the in-memory ledger
StoreCurrent == file.users = Serialize(users)

\* C13: write-through: every mutating path saves before it returns, so
\* whenever the store is behind the in-memory ledger (a record was created
\* or changed, a credit consumed, a plan set) the running operation comes
\* to a save after which the store holds the ledger again.
C13_WriteThrough == (~StoreCurrent) ~> StoreCurrent

\* the step in which the save_subscriptions of thread t fails and
\* returns False
SaveFails(t) ==
  /\ pc[t] \in {"save_open", "save_write"}
  /\ pc'[t] \notin {"save_open", "save_write", "save_done"}

\* C14: a save_subscriptions that fails to write returns with the lock
\* released and every in-memory record as it was, and afterwards the
\* in-memory ledger stays what the ledger calls read: as long as no
\* external writer has touched the store, no step of the constructed
\* process drops a user from the in-memory ledger.
C14_MemoryKeptOnFailedSave ==
  [][/\ \A t \in Threads :
          SaveFails(t) => (users' = users /\ lock' = NoThread)
     /\ (Started /\ ext = 0) =>
          \A u \in DOMAIN users : u \in DOMAIN users']_vars

\* no ledger operation is in progress
Quiet == \A t \in Threads : pc[t] \in {"idle", "init_done"}

\* With one thread at a time: reload_if_needed replaces the whole
\* in-memory ledger by the content of the store when the store exists and
\* is newer than the last load or successful save, and leaves the ledger
\* alone otherwise; after a successful save no reload is due; a reload
\* becomes due only by a run of the external tool or by a write of
\* save_subscriptions that has not finished; and after a run of the tool
\* between two operations a reload is due.
ReloadWhenStale ==
  [][/\ \A t \in Workers :
          Leaves(t, "gus_reload") =>
            /\ users' = (IF ReloadNeeded THEN LoadedUsers(file) ELSE users)
            /\ ~ReloadNeeded'
     /\ \A t \in Threads : Leaves(t, "save_done") => ~ReloadNeeded'
     /\ (~ReloadNeeded /\ ReloadNeeded') =>
          \/ ext' # ext
          \/ \E t \in Threads : Leaves(t, "save_open") \/ Leaves(t, "save_write")
     /\ (ext' # ext /\ Quiet) => ReloadNeeded']_vars

\* C15: reload_if_needed reloads only a store that was rewritten from
\* outside: in the runs in which the external tool does not run after
\* start-up, a save made by this process never makes a get_user_subscription
\* call reload, so no such call replaces the in-memory ledger.
C15_OwnSaveNeverReloads ==
  [][\A t \in Workers : Leaves(t, "gus_reload") => ~ReloadNeeded]_vars

\* C16: when the store exists, save_subscriptions renames it to .backup,
\* so that .backup holds exactly what the store held, or fails to and goes
\* on; the write that follows puts the new content into the store and
\* leaves .backup alone, as does the end of the save.
C16_BackupBeforeWrite ==
  [][\A t \in Threads :
       /\ (Leaves(t, "save_backup") /\ file.exists) =>
            /\ pc'[t] = "save_open"
            /\ \/ /\ backup'.exists
                  /\ backup'.valid = file.valid
                  /\ backup'.users = file.users
                  /\ ~file'.exists
               \/ /\ fails' = fails + 1
                  /\ file' = file
       /\ (pc[t] = "save_write" /\ pc'[t] = "save_done") =>
            /\ file'.exists /\ file'.valid
            /\ file'.users = data[t]
            /\ backup' = backup
       /\ Leaves(t, "save_done") =>
            /\ backup' = backup
            /\ file'.users = file.users]_vars

\* a save has written new content over a store whose earlier content is
\* in .backup
C16_Witness ==
  \E t \in Threads :
    /\ pc[t] = "save_done"
    /\ backup.exists /\ backup.valid
    /\ backup.users # file.users
    /\ file.users = Serialize(users)
    /\ fails = 0

\* the backup failed and the save has written the store all the same
C16_WitnessBackupFailed ==
  \E t \in Threads :
    /\ pc[t] = "save_done"
    /\ fails = 1
    /\ ~backup.exists
    /\ file.valid
    /\ file.users = Serialize(users)

\* C17: load_subscriptions always comes to its end: in the constructor
\* the next statement runs, in get_user_subscription the call goes on; with
\* no store file it leaves an empty ledger and records no load time, and
\* with a store that is not a JSON document it leaves an empty ledger.
C17_LoadNeverRaises ==
  [][/\ Leaves(Main, "init_load") =>
          /\ pc'[Main] = "init_ensure"
          /\ ~file.exists => (users' = EmptyUsers /\ lastLoaded' = None)
          /\ (file.exists /\ ~file.valid) => users' = EmptyUsers
     /\ \A t \in Workers :
          (Leaves(t, "gus_reload") /\ ReloadNeeded /\ ~file.valid) =>
            /\ users' = EmptyUsers
            /\ pc'[t] = "gus_body"]_vars

\* the constructor has loaded a store that is not a JSON document and
\* goes on with an empty ledger
C17_Witness ==
  /\ pc[Main] = "init_ensure"
  /\ file.exists
  /\ ~file.valid
  /\ users = EmptyUsers
  /\ lastLoaded = Late

\* the sender of the message thread t handles has the configured admin id
\* or the configured admin handle
SenderIsConfiguredAdmin(r) ==
  \/ r.sender = ADMIN_USER_ID
  \/ (r.username # NoName /\ Upper(r.username) = Upper(ADMIN_USERNAME))

\* C18: a handler calls add_subscription_user in admin_subscription_mode
\* only for a sender whose user id is the configured admin id or whose
\* username is the configured admin handle.
C18_AdminOnlyUpsert ==
  [][\A t \in Workers :
       (pc[t] = "idle" /\ pc'[t] = "asu_lock") =>
         SenderIsConfiguredAdmin(req'[t])]_vars

\* thread t is handling a /check whose text does not normalize to a number
InvalidCheck(t) == req[t].op = "check" /\ ~req[t].valid

\* the step of a bare message whose text does not normalize to a number
InvalidMessage(t) == pc[t] = "idle" /\ pc'[t] = "idle" /\ budget'[t] # budget[t]

\* C19: a search request whose text does not normalize to a number never
\* comes to use_search_credit or to query_api (after which alone the
\* history is written), and no step of it changes searches_used or
\* total_searches of any user.
C19_InvalidInputUnchanged ==
  [][\A t \in Workers :
       (InvalidCheck(t) \/ InvalidMessage(t)) =>
         /\ pc'[t] \notin {"usc_inc", "h_query"}
         /\ \A u \in DOMAIN users \cap DOMAIN users' :
              /\ users'[u].searches_used = users[u].searches_used
              /\ users'[u].total_searches = users[u].total_searches]_vars

\* C19, amended: a search request whose text does not normalize to a number
\* never comes to use_search_credit or to query_api, and no step of it
\* changes total_searches or raises searches_used; in the /check path the
\* can_user_search call made before the text is parsed still applies the
\* daily reset when it is due, which sets searches_used to 0.
C19_InvalidInputNoCredit ==
  [][\A t \in Workers :
       (InvalidCheck(t) \/ InvalidMessage(t)) =>
         /\ pc'[t] \notin {"usc_inc", "h_query"}
         /\ InvalidMessage(t) => users' = users
         /\ \A u \in DOMAIN users \cap DOMAIN users' :
              /\ users'[u].total_searches = users[u].total_searches
              /\ \/ users'[u].searches_used = users[u].searches_used
                 \/ /\ ResetDue(users[u])
                    /\ Leaves(t, "gus_body")
                    /\ arg[t].uid = u
                    /\ users'[u].searches_used = 0]_vars

\* a permitted /check with an unparsable text has ended, and its
\* can_user_search call reset the counter of an earlier day
C19_Witness ==
  \E t \in Workers :
    /\ pc[t] = "h_end"
    /\ req[t].op = "check"
    /\ ~req[t].valid
    /\ res[t] = Allowed
    /\ didReset[t]
    /\ SubRec(t).searches_used = 0
    /\ SubRec(t).total_searches >= 1

(***************************************************************************)
(* C20: the credit is consumed before query_api and never refunded         *)
(***************************************************************************)
\* a worker whose handler has called query_api for a non-admin sender
Queried(t) ==
  /\ req[t].found \in QueryOutcomes
  /\ req[t].uid \in DOMAIN users
  /\ ~users[req[t].uid].is_admin

C21_QueryOutsideLock ==
  [][\A t \in Workers :
       /\ (pc'[t] = "h_query") => lock' # t
       /\ (pc[t] = "h_query") => (lock # t /\ lock' # t)]_vars

\* one worker is in query_api while the other holds the lock for its own
\* ledger operation
C21_Witness ==
  \E t \in Workers, o \in Workers :
    /\ o # t
    /\ pc[t] = "h_query"
    /\ lock = o

(***************************************************************************)
(* C22, C23: fields that are meant to outlive an upsert                    *)
(***************************************************************************)
\* C22: for every user, total_searches never decreases over any sequence
\* of ledger operations (get_user_subscription, can_user_search,
\* use_search_credit, add_subscription_user, save).
C22_TotalSearchesMonotone ==
  [][\A u \in DOMAIN users \cap DOMAIN users' :
       users'[u].total_searches >= users[u].total_searches]_vars

\* C23: for every user, created_date keeps the value it got when the
\* record was first created over any later sequence of ledger operations,
\* add_subscription_user on the existing user included.
C23_CreatedDateSetOnce ==
  [][\A u \in DOMAIN users \cap DOMAIN users' :
       users'[u].created_date = users[u].created_date]_vars

(***************************************************************************)
(* query_api                                                               *)
(***************************************************************************)
\* the last response a query_api call met
LastResponse(a) == a.trace[Len(a.trace)]

\* the step in which attempt number n of query_api meets a response
AttemptStep(n) ==
  /\ api.pc = "loop"
  /\ api.attempt = n
  /\ Len(api'.trace) = Len(api.trace) + 1

\* C24: when an attempt of query_api receives HTTP 401, query_api returns
\* (false, invalid-API-key message) in that attempt, whatever its number:
\* no backoff sleep is made and no further request is sent.
C24_UnauthorizedIsFatal ==
  [][\A n \in 1..MAX_RETRIES :
       (AttemptStep(n) /\ LastResponse(api').code = 401) =>
         /\ api'.pc = "done"
         /\ api'.ret = [success |-> FALSE, text |-> InvalidKeyText]
         /\ api'.sleeps = api.sleeps
         /\ api'.requests = n]_vars

\* a 401 on the last attempt, after two attempts that were retried
C24_Witness ==
  /\ api.pc = "done"
  /\ Len(api.trace) = MAX_RETRIES
  /\ LastResponse(api).code = 401
  /\ api.ret.text = InvalidKeyText

\* a call that met a 429 and then a 200 with records format_user_data reads
RateLimitedThenFound(a) ==
  /\ a.pc = "done"
  /\ Len(a.trace) = 2
  /\ a.trace[1].code = 429
  /\ a.trace[2].code = 200
  /\ Body200(a.trace[2].body).msg = "formatted"

C25_WitnessLastAttempt ==
  /\ api.pc = "done"
  /\ Len(api.trace) = MAX_RETRIES
  /\ LastResponse(api).code = 429
  /\ Len(api.sleeps) > 0
  /\ api.sleeps[Len(api.sleeps)] = RETRY_DELAY * 2^MAX_RETRIES

\* the response is a status other than 200, 401 and 429
OtherStatus(r) == r.code \notin {0, 200, 401, 429}

\* C26: when an attempt of query_api receives a status other than 200, 401
\* and 429, query_api retries if the attempt is not the last one, and
\* returns (false, text naming the HTTP status) if it is attempt
\* MAX_RETRIES.
C26_OtherStatus ==
  [][\A n \in 1..MAX_RETRIES :
       (AttemptStep(n) /\ OtherStatus(LastResponse(api'))) =>
         /\ n < MAX_RETRIES =>
              /\ api'.pc = "loop"
              /\ api'.attempt = n + 1
              /\ api'.sleeps = api.sleeps
         /\ n = MAX_RETRIES =>
              /\ api'.pc = "done"
              /\ api'.ret = [success |-> FALSE,
                             text |-> Text("http_status", LastResponse(api').code, "")]]_vars

\* the last attempt met an error status after an earlier one was retried
C26_Witness ==
  /\ api.pc = "done"
  /\ Len(api.trace) = MAX_RETRIES
  /\ OtherStatus(api.trace[1])
  /\ OtherStatus(LastResponse(api))
  /\ api.ret.text.msg = "http_status"

\* the response is a read timeout or a connection error
NetworkError(r) == r.code = 0 /\ IsNetworkError(r.exc)

\* C27: when attempt number a of query_api ends in a read timeout or a
\* connection error, query_api sleeps RETRY_DELAY * a and retries if
\* a < MAX_RETRIES, and neither sleeps nor retries if a = MAX_RETRIES.
C27_NetworkErrorBackoff ==
  [][\A n \in 1..MAX_RETRIES :
       (AttemptStep(n) /\ NetworkError(LastResponse(api'))) =>
         /\ n < MAX_RETRIES =>
              /\ api'.sleeps = Append(api.sleeps, RETRY_DELAY * n)
              /\ api'.pc = "loop"
              /\ api'.attempt = n + 1
         /\ n = MAX_RETRIES =>
              /\ api'.sleeps = api.sleeps
              /\ api'.pc = "done"
              /\ api'.requests = MAX_RETRIES]_vars

\* three network errors: two sleeps of growing length, none after the last
C27_Witness ==
  /\ api.pc = "done"
  /\ Len(api.trace) = MAX_RETRIES
  /\ \A i \in 1..MAX_RETRIES : NetworkError(api.trace[i])
  /\ api.sleeps = <<RETRY_DELAY, RETRY_DELAY * 2>>

\* the last exception a sequence of responses raised, None if none did
LastExcOf(tr) ==
  LET raised == {i \in 1..Len(tr) : tr[i].code = 0} IN
  IF raised = {} THEN NoExc
  ELSE tr[CHOOSE i \in raised : \A j \in raised : j <= i].exc

\* the failure description built from exception e, cut to DescrCut
CutDescription(e) ==
  [msg |-> "failed", n |-> IF e.len < DescrCut THEN e.len ELSE DescrCut, exc |-> e.cls]

\* query_api has returned after MAX_RETRIES attempts none of which met a
\* 200 or a 401
Exhausted(a) ==
  /\ a.pc = "done"
  /\ Len(a.trace) = MAX_RETRIES
  /\ \A i \in 1..MAX_RETRIES : a.trace[i].code \notin {200, 401}

\* the same, the attempts being any mix of 429, other statuses, timeouts
\* and connection errors
ExhaustedByMix(a) ==
  /\ Exhausted(a)
  /\ \A i \in 1..MAX_RETRIES : a.trace[i].code = 0 => IsNetworkError(a.trace[i].exc)

\* C28 as stated: when all MAX_RETRIES attempts end without a 200 and
\* without a 401 (any mix of 429, other statuses, timeouts and connection
\* errors), query_api returns success = false and the text is the failure
\* description built from the last exception of the run, cut to a bounded
\* length.
C28_ExhaustedLastException ==
  ExhaustedByMix(api) =>
    /\ ~api.ret.success
    /\ LastExcOf(api.trace) # NoExc
    /\ api.ret.text = CutDescription(LastExcOf(api.trace))

\* C28 amended: when all MAX_RETRIES attempts end without a 200 and
\* without a 401, query_api returns success = false.  If the last attempt
\* met another error status the text names that status; otherwise the text
\* is the final error message, built from last_exc with its description
\* cut to DescrCut characters: the last exception of the run, or None when
\* no attempt raised one.
C28_ExhaustedFails ==
  Exhausted(api) =>
    /\ ~api.ret.success
    /\ api.requests = MAX_RETRIES
    /\ OtherStatus(LastResponse(api)) =>
         api.ret.text = Text("http_status", LastResponse(api).code, "")
    /\ ~OtherStatus(LastResponse(api)) =>
         /\ api.ret.text = CutDescription(LastExcOf(api.trace))
         /\ api.ret.text.n <= DescrCut

\* a run that ends in a timeout whose description is longer than the cut
C28_Witness ==
  /\ ExhaustedByMix(api)
  /\ LastResponse(api).code = 0
  /\ LastResponse(api).exc.len > DescrCut
  /\ api.ret.text = Text("failed", DescrCut, LastResponse(api).exc.cls)

\* a run of 429 responses only: the message is built from None
C28_WitnessNoException ==
  /\ ExhaustedByMix(api)
  /\ LastExcOf(api.trace) = NoExc
  /\ api.ret.text = Text("failed", NoExc.len, "NoneType")

\* the messages a (success, text) pair of query_api can carry
ReturnedMessages ==
  {"formatted", "no_data", "body", "invalid_key", "http_status", "failed"}

\* C29: for every sequence of per-attempt outcomes (200 with any body,
\* 401, 429, other status, timeout, connection error, other exception),
\* query_api sends at least one and at most MAX_RETRIES requests and then
\* returns a (success, text) pair: it always terminates and never raises
\* to its caller.
C29_AlwaysReturns ==
  /\ [](/\ api.requests <= MAX_RETRIES
        /\ api.requests = Len(api.trace)
        /\ api.pc = "done" =>
             /\ api.requests >= 1
             /\ api.ret.success \in BOOLEAN
             /\ api.ret.text.msg \in ReturnedMessages)
  /\ ((api.pc = "loop") ~> (api.pc = "done"))

\* a call whose first request raised an exception that is not a
\* RequestException has returned a failure pair
C29_Witness ==
  /\ api.pc = "done"
  /\ api.requests = 1
  /\ api.trace[1].code = 0
  /\ ~IsRequestException(api.trace[1].exc)
  /\ api.ret.text.msg = "failed"

\* a call has returned after MAX_RETRIES requests
C29_WitnessAllAttempts ==
  /\ api.pc = "done"
  /\ api.requests = MAX_RETRIES

\* the text the 200 branch is to return for a body: formatted records for
\* a non-empty JSON list or a success envelope with data, the body itself
\* for text longer than MinTextLen that is not JSON, else the
\* no-data-found message
ExpectedText(body) ==
  CASE body.fmt = "list" /\ Len(body.items) > 0 -> Text("formatted", Len(body.items), "")
    [] body.fmt = "dict" /\ body.status = "success" /\ Len(body.items) > 0 ->
         Text("formatted", Len(body.items), "")
    [] body.fmt = "text" /\ body.len > MinTextLen -> Text("body", body.len, "")
    [] OTHER -> NoDataText

\* C30: when an attempt of query_api receives HTTP 200, query_api returns
\* success = true on that attempt without retrying: formatted records when
\* the JSON body is a non-empty list or a success envelope with data, the
\* no-data-found message when the body is JSON with no usable records, and
\* the body text when the body is not JSON and longer than 10 characters.
C30_OkReturnsSuccess ==
  [][\A n \in 1..MAX_RETRIES :
       (AttemptStep(n) /\ LastResponse(api').code = 200) =>
         /\ api'.pc = "done"
         /\ api'.requests = n
         /\ api'.ret = [success |-> TRUE,
                        text |-> ExpectedText(LastResponse(api').body)]]_vars

\* the same for the bodies whose records format_user_data can read
C30_ReadableBodyReturnsSuccess ==
  [][\A n \in 1..MAX_RETRIES :
       (/\ AttemptStep(n)
        /\ LastResponse(api').code = 200
        /\ \A i \in 1..Len(LastResponse(api').body.items) :
              LastResponse(api').body.items[i] = "record") =>
         /\ api'.pc = "done"
         /\ api'.requests = n
         /\ api'.ret = [success |-> TRUE,
                        text |-> ExpectedText(LastResponse(api').body)]]_vars

\* C39: query_api sleeps only when another attempt follows: no sleep is
\* made after attempt MAX_RETRIES has ended, so a call that has returned
\* after k requests has made at most k - 1 sleeps.
C39_SleepOnlyBeforeRetry ==
  api.pc = "done" => Len(api.sleeps) <= api.requests - 1

\* the same for the calls in which no attempt met a 429
C39_SleepOnlyBeforeRetryUnless429 ==
  (api.pc = "done" /\ \A i \in 1..Len(api.trace) : api.trace[i].code # 429) =>
    Len(api.sleeps) <= api.requests - 1

(***************************************************************************)
(* Search history                                                          *)
(***************************************************************************)
\* the history the bot holds for a user; a user without a list has none
HistoryOf(u) == IF u \in DOMAIN search_history THEN search_history[u] ELSE << >>

\* C31: after any sequence of add_to_history, clear_history and admin_reset
\* operations every user's search history has at most HISTORY_LIMIT entries
\* and is, in insertion order, the last min(HISTORY_LIMIT, n) of the n
\* entries added for that user since the history was last cleared.
C31_HistoryIsLastTen ==
  \A u \in UserIds :
    /\ Len(HistoryOf(u)) <= HISTORY_LIMIT
    /\ HistoryOf(u) = LastN(histLog[u].since, HISTORY_LIMIT)

\* more than HISTORY_LIMIT entries were added since the last clearing, so
\* the oldest ones are evicted, and this after an earlier clearing
C31_Witness ==
  \E u \in UserIds :
    /\ Len(histLog[u].since) > HISTORY_LIMIT
    /\ histLog[u].count > Len(histLog[u].since)
    /\ HistoryOf(u)[1].number = histLog[u].count - HISTORY_LIMIT + 1

(***************************************************************************)
(* BotManager                                                              *)
(***************************************************************************)
\* C40: once max_consecutive_errors polling runs in a row have ended in an
\* error, start_polling has set is_running to false (and so leaves its
\* loop instead of reconnecting).
C40_GivesUpAfterMaxErrors ==
  manager.failed_runs >= max_consecutive_errors => ~manager.is_running

\* what the loop does count: consecutive_errors is set to 0 before every
\* run, so it never exceeds 1
C40_CounterNeverExceedsOne == manager.consecutive_errors <= 1

\* stop does end the loop: with is_running false no further run starts
C40_StopEndsLoop ==
  [][~manager.is_running /\ manager.pc # "idle" => manager'.pc \in {"loop", "stopped"} /\ ~manager'.is_running]_vars

(***************************************************************************)
(* normalize_number                                                        *)
(***************************************************************************)
\* an optional leading + followed by MinDigits to MaxDigits digits
IsCanonical(t) ==
  \E plus \in {0, 1} :
    /\ Len(t) - plus \in MinDigits..MaxDigits
    /\ plus = 1 => t[1] = "+"
    /\ \A i \in (plus + 1)..Len(t) : IsDigit(t[i])

\* the normalization as the design words it, for a given set of letters:
\* remove the separators; no result if a letter remains; the text itself
\* if it is canonical; else all its digits if they are MinDigits to
\* MaxDigits; else no result
Described(text, letters) ==
  LET c == SelectSeq(Strip(text), LAMBDA ch : ch \notin Separators)
      d == SelectSeq(c, IsDigit)
  IN  IF \E i \in 1..Len(c) : c[i] \in letters THEN NoNumber
      ELSE IF IsCanonical(c) THEN c
      ELSE IF Len(d) \in MinDigits..MaxDigits THEN d
      ELSE NoNumber

\* the three texts of the design's scenario and their results
ScenarioResult(text) ==
  IF text = <<" ", "9", "8", "-", "7", "6", " ", "5", "4", "3", "-", "2", "1", "0", " ">>
  THEN <<"9", "8", "7", "6", "5", "4", "3", "2", "1", "0">>
  ELSE IF text = <<"+", "9", "1", " ", "9", "8", "7", "6", "5", " ", "4", "3", "2", "1", "0">>
  THEN <<"+", "9", "1", "9", "8", "7", "6", "5", "4", "3", "2", "1", "0">>
  ELSE NoNumber

\* C32: normalize_number returns no result or a canonical string, computed
\* as the design words it with every letter rejected, and the three texts
\* of the scenario give their stated results.
C32_NormalizeAsDescribed ==
  norm.pc = "returned" =>
    /\ norm.result = NoNumber \/ IsCanonical(norm.result)
    /\ norm.result = Described(norm.text, AsciiLetters \cup OtherLetters)
    /\ norm.text \in ScenarioTexts => norm.result = ScenarioResult(norm.text)

\* the same with only the letters A-Z and a-z rejected
C32_NormalizeAsciiLetters ==
  norm.pc = "returned" =>
    /\ norm.result = NoNumber \/ IsCanonical(norm.result)
    /\ norm.result = Described(norm.text, AsciiLetters)
    /\ norm.text \in ScenarioTexts => norm.result = ScenarioResult(norm.text)

\* the cases of the function all happen: a canonical text kept with its +,
\* digits extracted from a text that is not canonical, a letter rejected
C32_WitnessAllCases ==
  /\ norm.pc = "returned"
  /\ norm.text \in ScenarioTexts
  /\ norm.result # NoNumber
  /\ norm.result[1] = "+"

(***************************************************************************)
(* C33: what changes the plan of a record                                  *)
(***************************************************************************)
\* plan, expires and payment_amount of a record
PlanFields(r) == <<r.plan, r.expires, r.payment_amount>>

\* the step is the upsert of add_subscription_user for user u
UpsertStep(u) ==
  \E t \in Threads : pc[t] = "asu_lock" /\ pc'[t] = "save_lock" /\ arg[t].uid = u

\* the step is the expiry downgrade of get_user_subscription on the
\* expired record of u: plan free, no expiry, payment_amount kept
DowngradeStep(u) ==
  /\ \E t \in Workers : pc[t] = "gus_body" /\ arg[t].uid = u
  /\ Expired(users[u])
  /\ PlanFields(users'[u]) = <<"free", None, users[u].payment_amount>>

\* the step is the update _ensure_admin_subscription makes to the record
\* of the configured admin when the manager is constructed
EnsureAdminStep(u) ==
  /\ pc[Main] = "init_ensure"
  /\ u = ADMIN_USER_ID
  /\ users'[u] = AdminFixed(users[u])

C34_SinglePlanOneSearch ==
  \A u \in DOMAIN users :
    /\ users[u].plan = "single"
    /\ ~users[u].is_admin
    /\ now < users[u].expires
    => users[u].total_searches <= 1

\* within one calendar day the single plan does permit one search only
C34_SinglePlanOneSearchPerDay ==
  \A u \in DOMAIN users :
    users[u].plan = "single" /\ ~users[u].is_admin => users[u].searches_used <= 1

(***************************************************************************)
(* C35: searches_used against the quota of the plan                        *)
(***************************************************************************)
\* searches_per_day - searches_used, the remaining searches shown to the
\* user
Remaining(r) == subscription_plans[r.plan].searches_per_day - r.searches_used

\* C35: in every reachable ledger state each non-admin record has
\* searches_used <= searches_per_day of its current plan, so the remaining
\* searches shown to the user are never negative.
C35_UsedWithinQuota ==
  \A u \in DOMAIN users :
    ~users[u].is_admin /\ users[u].plan \in DOMAIN subscription_plans =>
      Remaining(users[u]) >= 0

\* as long as a record keeps its plan the count stays within the quota:
\* only a record downgraded on expiry shows a negative remainder
C35_UsedWithinQuotaUnlessExpired ==
  \A u \in DOMAIN users :
    /\ ~users[u].is_admin
    /\ users[u].plan \in DOMAIN subscription_plans
    /\ users[u].status # "expired"
    => Remaining(users[u]) >= 0

(***************************************************************************)
(* C36: plans outside the quota table                                      *)
(***************************************************************************)
\* can_user_search is about to read subscription_plans[plan] for a plan
\* that is not a key of the table
RaisesKeyError(t) ==
  /\ pc[t] = "cus_decide"
  /\ ~SubRec(t).is_admin
  /\ SubRec(t).plan \notin DOMAIN subscription_plans

\* C36: in every reachable ledger state, also after the reload of a store
\* written by add_subscription.py, the plan of each record is a key of the
\* quota table, so can_user_search never fails on an unknown plan.
C36_PlansInTable ==
  /\ \A u \in DOMAIN users : users[u].plan \in DOMAIN subscription_plans
  /\ \A t \in Workers : ~RaisesKeyError(t)

\* the second half alone: can_user_search never fails on an unknown plan
C36_NoKeyError == \A t \in Workers : ~RaisesKeyError(t)

\* the plans the ledger itself assigns are keys of the table: a record
\* with another plan carries the tool's names, not those of a chat sender
C36_UnknownPlansComeFromTool ==
  \A u \in DOMAIN users :
    users[u].plan \notin DOMAIN subscription_plans => users[u].payment_amount = 99

(***************************************************************************)
(* C38: a reload while another thread saves                                *)
(***************************************************************************)
\* thread t is inside the with block of save_subscriptions
InsideSave(t) == pc[t] \in {"save_backup", "save_open", "save_write", "save_done"}

\* C38: while one thread is inside save_subscriptions, the
\* reload_if_needed of a get_user_subscription call of another thread never
\* replaces the in-memory ledger by an empty, partial or older one: every
\* user present before is present after, with the same record.
C38_ReloadDuringSaveKeepsLedger ==
  [][\A t \in Workers :
       (Leaves(t, "gus_reload") /\ \E s \in Threads \ {t} : InsideSave(s)) =>
         \A u \in DOMAIN users :
           u \in DOMAIN users' /\ SameLogicalRecord(users'[u], users[u])]_vars

\* while the store is away (renamed to .backup and not yet opened) a
\* reload of another thread does nothing
C38_NoReloadWhileStoreIsAway ==
  [][\A t \in Workers :
       (Leaves(t, "gus_reload") /\ \E s \in Threads \ {t} : pc[s] = "save_open" /\ ~file.exists) =>
         users' = users]_vars

(***************************************************************************)
(* C37: a restart inside save_subscriptions                                *)
(***************************************************************************)
\* the new process has loaded the store and .backup holds what an
\* interrupted save of the old process renamed away
LoadedAfterRestart == pc[Main] = "init_ensure" /\ backup.exists

\* C37: when the process stops inside save_subscriptions and a new
\* SubscriptionManager loads the store, the users that were persisted
\* before that save (the content of the store it renamed to .backup) are
\* in the loaded ledger.
C37_RestartKeepsPersistedUsers ==
  LoadedAfterRestart => \A u \in DOMAIN backup.users : u \in DOMAIN users

\* a process that stops after the write is complete loses nothing: the
\* store it leaves is loaded whole
C37_CompleteStoreIsLoaded ==
  (pc[Main] = "init_ensure" /\ file.exists /\ file.valid) =>
     DOMAIN users = DOMAIN file.users

====
